---- MODULE Spec2Model ----
(***************************************************************************)
(* A model of the chiplet cost model of src/design.py: the process         *)
(* catalogs (WaferProcess, IO, Layer, Assembly, Test) and the recursive    *)
(* Chip, whose constructor derives power, area, yield, quality and cost    *)
(* bottom-up over a tree of chip definitions.                              *)
(*                                                                         *)
(* Numbers.  The program computes in Python floats.  The model computes in *)
(* fixed point: a float x is the integer x * Scale, products and quotients *)
(* round down to a multiple of 1/Scale, and math.sqrt is the integer       *)
(* square root at that resolution.  Counts (wires, pads, chips, layers,    *)
(* quantity, group sizes, the clustering exponent) are plain integers.     *)
(* Python's None is PyNone.  The Python bools are PyTrue and PyFalse, which *)
(* differ from the str objects "True" and "False".                         *)
(***************************************************************************)
EXTENDS Integers, Sequences, FiniteSets, TLC

\* ------------------------------------------------------------------------
\* Bounds of the model
\* ------------------------------------------------------------------------

\* Resolution of the fixed-point numbers: 1.0 is Scale.
Scale == 100

\* The chip definition trees have at most MaxChips chip nodes.
MaxChips == 3

\* At most MaxSetterCalls setter calls are made on the built chips or on a
\* catalog record.
MaxSetterCalls == 2

\* ------------------------------------------------------------------------
\* Python values
\* ------------------------------------------------------------------------

\* None: the default of every constructor argument.
PyNone == -1

\* The bool True, which no str equals.
PyTrue == "<True>"

\* The bool False.
PyFalse == "<False>"

\* ------------------------------------------------------------------------
\* Float arithmetic in fixed point
\* ------------------------------------------------------------------------

F(n) == n * Scale

\* n / d as a float, for integer literals n and d.
Frac(n, d) == (n * Scale) \div d

FMul(a, b) == (a * b) \div Scale

FDiv(a, b) == (a * Scale) \div b

\* math.ceil and math.floor of a float: an integer.
Ceil(a) == (a + Scale - 1) \div Scale

Floor(a) == a \div Scale

Max2(a, b) == IF a >= b THEN a ELSE b

RECURSIVE IsqrtBetween(_, _, _)
IsqrtBetween(n, lo, hi) ==
    IF lo >= hi THEN lo
    ELSE LET mid == (lo + hi + 1) \div 2
         IN  IF mid * mid <= n THEN IsqrtBetween(n, mid, hi)
             ELSE IsqrtBetween(n, lo, mid - 1)

\* The largest r with r * r <= n.
Isqrt(n) == IsqrtBetween(n, 0, 46340)

\* math.sqrt of a float.
FSqrt(a) == Isqrt(a * Scale)

\* b ** n for a float b and an integer n >= 0.
RECURSIVE FPow(_, _)
FPow(b, n) == IF n <= 0 THEN Scale ELSE FMul(b, FPow(b, n - 1))

\* math.pi
Pi == Frac(314, 100)

\* The outcome of a function that may end the process with sys.exit(1) or
\* raise: a value, or the message printed (the exception raised).
Ok(x) == [ok |-> TRUE, v |-> x, msg |-> ""]

Fatal(m) == [ok |-> FALSE, v |-> 0, msg |-> m]

\* No outcome yet: the function has not been applied.
Pending == [ok |-> FALSE, v |-> 0, msg |-> "pending"]

\* ------------------------------------------------------------------------
\* Layer: yield and cost of one process layer
\* ------------------------------------------------------------------------

\* clustering_factor is an integer exponent in the model.
layer_yield(l, area) ==
    LET num_stitches == 0
        defect_yield ==
            FDiv(Scale,
                 FPow(Scale + (FMul(FMul(l.defect_density, area), l.critical_area_ratio)
                               \div l.clustering_factor),
                      l.clustering_factor))
        stitching_yield == FPow(l.stitching_yield, num_stitches)
    IN  FMul(stitching_yield, defect_yield)

\* The while loop of reticle_utilization: the reticle area after growing.
RECURSIVE GrowReticle(_, _, _)
GrowReticle(reticle_area, step, area) ==
    IF reticle_area < area THEN GrowReticle(reticle_area + step, step, area)
    ELSE reticle_area

\* reticle_utilization_after_loop that counts one chip more than fits.
reticle_utilization_one_more_chip(reticle_area, area) ==
    LET number_chips_in_reticle == reticle_area \div area + 1
        unutilized_reticle == reticle_area - number_chips_in_reticle * area
    IN  FDiv(reticle_area - unutilized_reticle, reticle_area)

\* The statements of reticle_utilization after the while loop, for area > 0.
reticle_utilization_after_loop(reticle_area, area) ==
    LET number_chips_in_reticle == reticle_area \div area
        unutilized_reticle == reticle_area - number_chips_in_reticle * area
    IN  FDiv(reticle_area - unutilized_reticle, reticle_area)

reticle_utilization(l, area, reticle_x, reticle_y) ==
    reticle_utilization_after_loop(
        GrowReticle(FMul(reticle_x, reticle_y), FMul(reticle_x, reticle_y), area), area)

\* The value returned when the die does not fit the wafer (1e09 in the
\* program; the model's numbers are 32 bits wide, so it is 1e03 here).
CostSentinel == F(1000)

\* The chord of the usable wafer circle (radius r) at height h, times 2.
ChordLength(r, h) == FSqrt(FMul(r, r) - FMul(h, h)) * 2

SquaresAlong(chord_length, square_side) == Floor(FDiv(chord_length, square_side))

\* Case 1, the rows above and below the centred row.  starting_distance_from_left
\* is reset to None in every iteration, so grid fill counts as line fill does.
RECURSIVE RowsCase1(_, _, _)
RowsCase1(row_chord_height, square_side, r) ==
    IF row_chord_height < r
    THEN 2 * SquaresAlong(ChordLength(r, row_chord_height), square_side)
         + RowsCase1(row_chord_height + square_side, square_side, r)
    ELSE 0

\* Case 2, the rows after the first pair.
RECURSIVE RowsCase2(_, _, _, _, _, _)
RowsCase2(row_chord_height, square_side, r, usable_wafer_diameter, grid_fill, start) ==
    IF row_chord_height < r
    THEN LET chord_length == ChordLength(r, row_chord_height)
             location_of_first_fit_candidate == (usable_wafer_diameter - chord_length) \div 2
             starting_location ==
                 Ceil(FDiv(location_of_first_fit_candidate - start, square_side)) * square_side
                 + start
             effective_cord_length ==
                 chord_length - (starting_location - location_of_first_fit_candidate)
         IN  IF ~grid_fill
             THEN 2 * SquaresAlong(chord_length, square_side)
                  + RowsCase2(row_chord_height + square_side, square_side, r,
                              usable_wafer_diameter, grid_fill, start)
             ELSE IF start = PyNone
             THEN 2 * SquaresAlong(chord_length, square_side)
                  + RowsCase2(row_chord_height + square_side, square_side, r,
                              usable_wafer_diameter, grid_fill,
                              location_of_first_fit_candidate)
             ELSE 2 * SquaresAlong(effective_cord_length, square_side)
                  + RowsCase2(row_chord_height + square_side, square_side, r,
                              usable_wafer_diameter, grid_fill, start)
    ELSE 0

compute_cost_per_mm2(l, square_area, wafer_process) ==
    LET wafer_diameter == wafer_process.wafer_diameter
        grid_fill == wafer_process.wafer_fill_grid
        usable_wafer_diameter == wafer_diameter - 2 * wafer_process.edge_exclusion
        r == usable_wafer_diameter \div 2
        square_side == FSqrt(square_area) + wafer_process.dicing_distance
        num_squares_case_1 ==
            SquaresAlong(ChordLength(r, square_side \div 2), square_side)
            + RowsCase1(square_side \div 2 + square_side, square_side, r)
        num_squares_case_2 ==
            2 * SquaresAlong(ChordLength(r, square_side), square_side)
            + RowsCase2(square_side + square_side, square_side, r,
                        usable_wafer_diameter, grid_fill, PyNone)
        num_squares == Max2(num_squares_case_1, num_squares_case_2)
        used_area == num_squares * square_area
        circle_area == FMul(Pi, FMul(wafer_diameter \div 2, wafer_diameter \div 2))
    IN  IF square_area < 0 THEN Fatal("ValueError")
        ELSE IF FMul(square_side, FSqrt(F(2))) > r THEN Ok(CostSentinel)
        ELSE IF square_side = 0 THEN Fatal("ZeroDivisionError")
        ELSE IF square_area = 0 THEN Fatal("Square area is zero. Exiting...")
        ELSE IF num_squares = 0 THEN Fatal("Number squares is zero. Exiting...")
        ELSE Ok(FDiv(FMul(l.cost_per_mm2, circle_area), used_area))

layer_cost(l, area, wafer_process) ==
    IF area = 0 THEN Ok(0)
    ELSE IF area > 0
    THEN LET per_mm2 == compute_cost_per_mm2(l, area, wafer_process)
             layer_cost0 == FMul(area, per_mm2.v)
             util == IF l.litho_percent = 0 THEN Scale
                     ELSE reticle_utilization(l, area, wafer_process.reticle_x,
                                              wafer_process.reticle_y)
         IN  IF ~per_mm2.ok THEN per_mm2
             ELSE IF l.litho_percent < 0
             THEN Fatal("Error: Negative litho percent in Layer.layer_cost(). Exiting...")
             ELSE Ok(FMul(layer_cost0, Scale - l.litho_percent)
                     + FDiv(FMul(layer_cost0, l.litho_percent), util))
    ELSE Fatal("Error: Negative area in Layer.layer_cost(). Exiting...")

\* ------------------------------------------------------------------------
\* Assembly: time, cost and yield of putting chips together.  Machine costs,
\* technician costs (whole dollars) and machine lifetimes (whole years) are
\* plain integers; the cost per second is a float.
\* ------------------------------------------------------------------------

\* math.ceil(n / d) for integers n and d.
CeilDiv(n, d) == (n + d - 1) \div d

compute_picknplace_time(a, n_chips) ==
    a.picknplace_time * CeilDiv(n_chips, a.picknplace_group)

compute_bonding_time(a, n_chips) ==
    a.bonding_time * CeilDiv(n_chips, a.bonding_group)

\* assembly_time calls compute_picknplace_time() and compute_bonding_time()
\* without their argument n_chips: the first call raises.
assembly_time(a, n_chips) == Fatal("TypeError")

SecondsPerYear == 365 * 24 * 60 * 60

compute_picknplace_cost_per_second(a) ==
    LET machine_cost_per_year == a.picknplace_machine_cost \div a.picknplace_machine_lifetime
        technician_cost_per_year == a.picknplace_technician_yearly_cost
        picknplace_cost_per_year == machine_cost_per_year + technician_cost_per_year
    IN  FMul((picknplace_cost_per_year * Scale) \div SecondsPerYear,
             a.picknplace_machine_uptime)

compute_bonding_cost_per_second(a) ==
    LET machine_cost_per_year == a.bonding_machine_cost \div a.bonding_machine_lifetime
        technician_cost_per_year == a.bonding_machine_technician_yearly_cost
        bonding_cost_per_year == machine_cost_per_year + technician_cost_per_year
    IN  FMul((bonding_cost_per_year * Scale) \div SecondsPerYear,
             a.bonding_machine_uptime)

\* The getters compute the cost per second only while the cache is None.
get_picknplace_cost_per_second(a) ==
    IF a.picknplace_cost_per_second = PyNone THEN compute_picknplace_cost_per_second(a)
    ELSE a.picknplace_cost_per_second

get_bonding_cost_per_second(a) ==
    IF a.bonding_cost_per_second = PyNone THEN compute_bonding_cost_per_second(a)
    ELSE a.bonding_cost_per_second

\* The Assembly object after the two getters ran: the caches are filled.
AssemblyAfterGet(a) ==
    [a EXCEPT !.picknplace_cost_per_second = get_picknplace_cost_per_second(a),
              !.bonding_cost_per_second = get_bonding_cost_per_second(a)]

assembly_cost(a, n_chips, area) ==
    FMul(get_picknplace_cost_per_second(a), compute_picknplace_time(a, n_chips))
    + FMul(get_bonding_cost_per_second(a), compute_bonding_time(a, n_chips))
    + FMul(a.materials_cost_per_mm2, area)

\* n_bonds is a float; the designs of the model give it whole values and the
\* power is taken to its integer part.
assembly_yield(a, n_chips, n_bonds, area) ==
    LET dielectric_bond_area == area
        dielectric_bond_yield ==
            Scale - FMul(a.dielectric_bond_defect_density, dielectric_bond_area)
    IN  FMul(FMul(FMul(Scale, FPow(a.alignment_yield, n_chips)),
                  FPow(a.bonding_yield, Floor(n_bonds))),
             dielectric_bond_yield)

get_power_per_pad(a, core_voltage) ==
    LET pad_area == FMul(Pi, FMul(a.bonding_pitch \div 4, a.bonding_pitch \div 4))
        current_per_pad == FMul(a.max_pad_current_density, pad_area)
    IN  FMul(current_per_pad, core_voltage)

\* ------------------------------------------------------------------------
\* State
\* ------------------------------------------------------------------------

VARIABLES
    wafer_process_list,     \* the catalogs: sequences of objects
    assembly_process_list,
    test_process_list,
    layer_list,
    io_list,
    global_adjacency_matrix,        \* io type -> matrix over block_names
    average_bandwidth_utilization,  \* io type -> matrix over block_names
    block_names,
    etree,      \* the chip definition tree: etree[i] is the parent of node i
    attrib,     \* the attributes of each node of the definition tree
    menu,       \* the kinds of definition the nodes of the tree are drawn from
    static_arg, \* the static argument of the Chip constructor
    chip,       \* the Chip objects, one per node
    pc,         \* where each Chip's constructor stands
    stack,      \* the constructors that are running, innermost last
    status,     \* "running", "done", or "exit" after sys.exit(1)
    message,    \* the last line printed before sys.exit(1)
    drawn,      \* the random numbers returned while each Chip was built
    args,       \* the function applied on its own and its arguments
    result,     \* the outcome of that function
    call,       \* the last setter call: the object and the setter
    ret,        \* the value returned by the last setter call
    calls       \* the number of setter calls made

vars == <<wafer_process_list, assembly_process_list, test_process_list, layer_list,
          io_list, global_adjacency_matrix, average_bandwidth_utilization, block_names,
          etree, menu, attrib, static_arg, chip, pc, stack, status, message, drawn,
          args, result, call, ret, calls>>

catalog_vars == <<wafer_process_list, assembly_process_list, test_process_list,
                  layer_list, io_list>>

netlist_vars == <<global_adjacency_matrix, average_bandwidth_utilization, block_names>>

design_vars == <<etree, menu, static_arg>>

apply_vars == <<args, result>>

call_vars == <<call, ret, calls, apply_vars>>

\* An attribute that has not been assigned yet.
Unset == PyNone - 1

\* The truth value in an if statement of a bool, a str or None.
Truthy(x) == x \notin {PyFalse, "None", ""}

\* ------------------------------------------------------------------------
\* Chip: helpers over lists
\* ------------------------------------------------------------------------

RECURSIVE SumTo(_, _)
SumTo(s, n) == IF n = 0 THEN 0 ELSE SumTo(s, n - 1) + s[n]

\* sum(s), and the running product y = 1.0; for x in s: y *= x
Sum(s) == SumTo(s, Len(s))

RECURSIVE ProdTo(_, _)
ProdTo(s, n) == IF n = 0 THEN Scale ELSE FMul(ProdTo(s, n - 1), s[n])

Prod(s) == ProdTo(s, Len(s))

\* The indices range(len(block_names)), from 1 in the model; 0 stands for None.
BlockIndices == 1..Len(block_names)

\* get_io_area stops at the first block with the name ...
FirstBlockIndex(name) ==
    IF \E i \in BlockIndices : block_names[i] = name
    THEN CHOOSE i \in BlockIndices :
             block_names[i] = name /\ \A j \in 1..(i - 1) : block_names[j] # name
    ELSE 0

\* ... get_signal_count and get_signal_power keep the last one.
LastBlockIndex(name) ==
    IF \E i \in BlockIndices : block_names[i] = name
    THEN CHOOSE i \in BlockIndices :
             block_names[i] = name /\ \A j \in (i + 1)..Len(block_names) : block_names[j] # name
    ELSE 0

\* for io in io_list: if io.get_type() == io_type: break
\* leaves the last IO in io when no type matches.
IOOfType(io_type) ==
    IF \E i \in 1..Len(io_list) : io_list[i].type = io_type
    THEN io_list[CHOOSE i \in 1..Len(io_list) :
                     io_list[i].type = io_type
                     /\ \A j \in 1..(i - 1) : io_list[j].type # io_type]
    ELSE io_list[Len(io_list)]

\* The keys of the adjacency dictionary, in insertion order.
IOTypes == global_adjacency_matrix.types

\* m[:] of a two-dimensional array is the array itself.
SliceAll(m) == m

\* The IO object the constructor builds from the fields of io and the
\* argument bidirectional: the attribute set from the comparison with "True"
\* and "true" is overwritten with the argument.
IO_init(io, bidirectional) == [io EXCEPT !.bidirectional = bidirectional]

bidirectional_factor(io) == IF Truthy(io.bidirectional) THEN Frac(1, 2) ELSE Scale

expandedArea(area, border, aspect_ratio) ==
    LET x == FSqrt(FMul(area, aspect_ratio))
        y == FSqrt(FDiv(area, aspect_ratio))
    IN  FMul(x + 2 * border, y + 2 * border)

\* get_chip_list appends each child's list as one element, so the list is
\* nested: an element is a str or a list.
RECURSIVE get_chip_list(_)
get_chip_list(c) ==
    [i \in 1..(Len(chip[c].chips) + 1) |->
        IF i <= Len(chip[c].chips)
        THEN [kind |-> "list", v |-> get_chip_list(chip[c].chips[i])]
        ELSE [kind |-> "str", v |-> chip[c].name]]

\* name in list: a str equals no list.
InList(name, list) ==
    \E i \in 1..Len(list) : list[i].kind = "str" /\ list[i].v = name

internal_block_list_indices(internal_block_list) ==
    {i \in BlockIndices : InList(block_names[i], internal_block_list)}

compute_stack_power(c) ==
    Sum([i \in 1..Len(chip[c].chips) |-> chip[chip[c].chips[i]].total_power])

\* get_stacked_die_area without the edge exclusion of the assembly process.
get_stacked_die_area_without_edge_exclusion(c) ==
    LET a == assembly_process_list[chip[c].assembly_process]
    IN  Sum([i \in 1..Len(chip[c].chips) |->
                LET k == chip[c].chips[i]
                IN  IF ~Truthy(chip[k].buried)
                    THEN expandedArea(chip[k].area, a.die_separation \div 2,
                                      chip[k].aspect_ratio)
                    ELSE 0])

get_stacked_die_area(c) ==
    LET a == assembly_process_list[chip[c].assembly_process]
        stacked_die_area ==
            Sum([i \in 1..Len(chip[c].chips) |->
                    LET k == chip[c].chips[i]
                    IN  IF ~Truthy(chip[k].buried)
                        THEN expandedArea(chip[k].area, a.die_separation \div 2,
                                          chip[k].aspect_ratio)
                        ELSE 0])
    IN  expandedArea(stacked_die_area, a.edge_exclusion, Scale)

get_io_area(c) ==
    LET block_index == FirstBlockIndex(chip[c].name)
        m(t) == global_adjacency_matrix.m[t]
    IN  IF block_index = 0 THEN 0
        ELSE Sum([n \in 1..Len(IOTypes) |->
                    LET io_type == IOTypes[n]
                        io == IOOfType(io_type)
                    IN  Sum(m(io_type)[block_index]) * io.tx_area
                        + Sum(SliceAll(m(io_type))[block_index]) * io.rx_area])

\* The wires of one IO type between block b and the blocks outside the
\* internal list, weighted as get_signal_count weights them.
SignalsOfType(io_type, block_index, internal) ==
    LET m == global_adjacency_matrix.m[io_type]
        io == IOOfType(io_type)
    IN  Sum([j \in BlockIndices |->
                IF j \notin internal
                THEN FMul((m[block_index][j] + m[j][block_index]) * io.wire_count * Scale,
                          bidirectional_factor(io))
                ELSE 0])

\* get_signal_count that takes the last block for a chip that has none.
get_signal_count_of_last_block(c, internal_block_list) ==
    LET internal == internal_block_list_indices(internal_block_list)
    IN  [count |-> Sum([n \in 1..Len(IOTypes) |->
                           SignalsOfType(IOTypes[n], Len(block_names), internal)]),
         reach |-> [r \in {IOOfType(IOTypes[n]).reach : n \in 1..Len(IOTypes)} |->
                       Sum([n \in 1..Len(IOTypes) |->
                               IF IOOfType(IOTypes[n]).reach = r
                               THEN SignalsOfType(IOTypes[n], Len(block_names), internal)
                               ELSE 0])]]

\* The pair returned is the record [count, reach]; reach maps a reach to
\* the number of signals of that reach.
get_signal_count(c, internal_block_list) ==
    LET block_index == LastBlockIndex(chip[c].name)
        internal == internal_block_list_indices(internal_block_list)
        keyed == {n \in 1..Len(IOTypes) : BlockIndices \ internal # {}}
        reaches == {IOOfType(IOTypes[n]).reach : n \in keyed}
    IN  IF block_index = 0 THEN [count |-> 0, reach |-> <<>>]
        ELSE [count |-> Sum([n \in 1..Len(IOTypes) |->
                                SignalsOfType(IOTypes[n], block_index, internal)]),
              reach |-> [r \in reaches |->
                            Sum([n \in 1..Len(IOTypes) |->
                                    IF IOOfType(IOTypes[n]).reach = r
                                    THEN SignalsOfType(IOTypes[n], block_index, internal)
                                    ELSE 0])]]

get_signal_power(c, internal_block_list) ==
    LET internal == internal_block_list_indices(internal_block_list)
        m(t) == global_adjacency_matrix.m[t]
        u(t) == average_bandwidth_utilization[t]
        \* sum(m[:][index] * u[:][index]) + sum(m[index][:] * u[index][:])
        value(t, index) ==
            Sum([j \in BlockIndices |-> SliceAll(m(t))[index][j] * SliceAll(u(t))[index][j]])
            + Sum([j \in BlockIndices |-> m(t)[index][j] * u(t)[index][j]])
        link_weighted_sum(t) ==
            Sum([index \in BlockIndices |-> IF index \in internal THEN value(t, index) ELSE 0])
    IN  Sum([n \in 1..Len(IOTypes) |->
                LET io == IOOfType(IOTypes[n])
                IN  FMul(FMul(FMul(link_weighted_sum(IOTypes[n]), io.bandwidth),
                              io.energy_per_bit),
                         bidirectional_factor(io))])

get_chips_signal_count(c) ==
    LET internal_chip_list == get_chip_list(c)
    IN  Sum([i \in 1..Len(chip[c].chips) |->
                get_signal_count(chip[c].chips[i], internal_chip_list).count])

get_power_pads(c) ==
    LET power == chip[c].total_power
        a == assembly_process_list[chip[c].assembly_process]
    IN  Ceil(FDiv(power, get_power_per_pad(a, chip[c].core_voltage))) * 2

\* The elements of a set of numbers, smallest first.
RECURSIVE Sorted(_)
Sorted(S) ==
    IF S = {} THEN <<>>
    ELSE LET least == CHOOSE x \in S : \A y \in S : x <= y
         IN  <<least>> \o Sorted(S \ {least})

\* One pass of the loop over the reaches in get_pad_area: the bounding box
\* [x, y] that holds the pads counted so far, or the fatal error.
RECURSIVE PadLoop(_, _, _, _, _, _, _, _, _)
PadLoop(reaches, n, signal_with_reach_count, die_separation, bonding_pitch, aspect_ratio, current_x, current_y, current_count) ==
    IF n > Len(reaches) THEN [ok |-> TRUE, x |-> current_x, y |-> current_y, msg |-> ""]
    ELSE
    LET reach == reaches[n]
        area_per_pad == FMul(bonding_pitch, bonding_pitch)
        reach_with_separation == reach - die_separation
        count == current_count + signal_with_reach_count[reach]
        required_area == FMul(count, area_per_pad)
        usable_area ==
            IF reach_with_separation < current_x /\ reach_with_separation < current_y
            THEN FMul(reach_with_separation, current_x + current_y)
                 - FMul(reach_with_separation, reach_with_separation)
            ELSE FMul(current_x, current_y)
        required_x == FSqrt(FMul(required_area, aspect_ratio))
        required_y == FSqrt(FDiv(required_area, aspect_ratio))
        banded == required_x > reach_with_separation /\ required_y > reach_with_separation
        new_req_y0 ==
            IF banded
            THEN FDiv(FDiv(2 * required_area, reach_with_separation)
                      + 2 * reach_with_separation,
                      2 * aspect_ratio + F(2))
            ELSE required_y
        new_req_x0 == IF banded THEN FMul(aspect_ratio, new_req_y0) ELSE required_x
        new_req_x == Ceil(FDiv(new_req_x0, bonding_pitch)) * bonding_pitch
        new_req_y == Ceil(FDiv(new_req_y0, bonding_pitch)) * bonding_pitch
    IN  IF reach_with_separation < 0
        THEN [ok |-> FALSE, x |-> 0, y |-> 0,
              msg |-> "Error: Reach is smaller than chip separation. Exiting..."]
        ELSE IF usable_area <= required_area
        THEN IF banded /\ reach_with_separation = 0
             THEN [ok |-> FALSE, x |-> 0, y |-> 0, msg |-> "ZeroDivisionError"]
             ELSE PadLoop(reaches, n + 1, signal_with_reach_count, die_separation,
                          bonding_pitch, aspect_ratio,
                          Max2(new_req_x, current_x), Max2(new_req_y, current_y), count)
        ELSE PadLoop(reaches, n + 1, signal_with_reach_count, die_separation,
                     bonding_pitch, aspect_ratio, current_x, current_y, count)

\* The last pass of get_pad_area: the grid [x, y] of pads for required_area.
PadGrid(required_area, current_x, current_y, bonding_pitch) ==
    LET required_side == FSqrt(required_area)
        square == Ceil(FDiv(required_side, bonding_pitch))
    IN  IF required_area <= FMul(current_x, current_y)
        THEN [x |-> Ceil(FDiv(current_x, bonding_pitch)),
              y |-> Ceil(FDiv(current_y, bonding_pitch))]
        ELSE IF current_x < current_y
        THEN IF FMul(current_y, current_y) <= required_area
             THEN [x |-> Ceil(FDiv(FDiv(required_area, current_y), bonding_pitch)),
                   y |-> Ceil(FDiv(current_y, bonding_pitch))]
             ELSE [x |-> square, y |-> square]
        ELSE IF current_y < current_x
        THEN IF FMul(current_x, current_x) <= required_area
             THEN [x |-> Ceil(FDiv(current_x, bonding_pitch)),
                   y |-> Ceil(FDiv(FDiv(required_area, current_x), bonding_pitch))]
             ELSE [x |-> square, y |-> square]
        ELSE [x |-> square, y |-> square]

\* get_pad_area that takes the bonding pitch and the die separation of the
\* chip's own assembly process whether it has a parent or not.
get_pad_area_of_own_pitch(c) ==
    LET num_power_pads == get_power_pads(c)
        signals == get_signal_count(c, get_chip_list(c))
        num_pads == signals.count + F(num_power_pads)
        a == assembly_process_list[chip[c].assembly_process]
        bonding_pitch == a.bonding_pitch
        area_per_pad == FMul(bonding_pitch, bonding_pitch)
        loop == PadLoop(Sorted(DOMAIN signals.reach), 1, signals.reach, a.die_separation,
                        bonding_pitch, chip[c].aspect_ratio, 0, 0, 0)
        grid == PadGrid(FMul(area_per_pad, num_pads), loop.x, loop.y, bonding_pitch)
    IN  IF ~loop.ok THEN Fatal(loop.msg)
        ELSE Ok(grid.x * grid.y * area_per_pad)

\* The assembly process get_pad_area reads the bonding pitch and the die
\* separation from: the parent's if the chip has a parent.
PadAssembly(c) ==
    IF chip[c].parent_chip # 0
    THEN assembly_process_list[chip[chip[c].parent_chip].assembly_process]
    ELSE assembly_process_list[chip[c].assembly_process]

\* current_x and current_y after the loop over the reaches.
PadRectangle(c) ==
    LET signals == get_signal_count(c, get_chip_list(c))
    IN  PadLoop(Sorted(DOMAIN signals.reach), 1, signals.reach, PadAssembly(c).die_separation,
                PadAssembly(c).bonding_pitch, chip[c].aspect_ratio, 0, 0, 0)

\* get_pad_area that subtracts the die separation of the chip's own assembly
\* process from the reaches whether the chip has a parent or not.
get_pad_area_of_own_separation(c) ==
    LET num_power_pads == get_power_pads(c)
        signals == get_signal_count(c, get_chip_list(c))
        num_pads == signals.count + F(num_power_pads)
        bonding_pitch == PadAssembly(c).bonding_pitch
        area_per_pad == FMul(bonding_pitch, bonding_pitch)
        loop == PadLoop(Sorted(DOMAIN signals.reach), 1, signals.reach,
                        assembly_process_list[chip[c].assembly_process].die_separation,
                        bonding_pitch, chip[c].aspect_ratio, 0, 0, 0)
        grid == PadGrid(FMul(area_per_pad, num_pads), loop.x, loop.y, bonding_pitch)
    IN  IF ~loop.ok THEN Fatal(loop.msg)
        ELSE Ok(grid.x * grid.y * area_per_pad)

get_pad_area(c) ==
    LET num_power_pads == get_power_pads(c)
        signals == get_signal_count(c, get_chip_list(c))
        num_pads == signals.count + F(num_power_pads)
        bonding_pitch == PadAssembly(c).bonding_pitch
        area_per_pad == FMul(bonding_pitch, bonding_pitch)
        loop == PadRectangle(c)
        grid == PadGrid(FMul(area_per_pad, num_pads), loop.x, loop.y, bonding_pitch)
    IN  IF ~loop.ok THEN Fatal(loop.msg)
        ELSE Ok(grid.x * grid.y * area_per_pad)

\* compute_area that computes the area of a chip with the area override too.
compute_area_without_override(c) ==
    LET chip_io_area == chip[c].core_area + get_io_area(c)
        pad_required_area == get_pad_area(c)
        stacked_die_bound_area == get_stacked_die_area(c)
    IN  IF ~pad_required_area.ok THEN pad_required_area
        ELSE Ok(Max2(Max2(stacked_die_bound_area, pad_required_area.v), chip_io_area))

compute_area(c) ==
    LET chip_io_area == chip[c].core_area + get_io_area(c)
        pad_required_area == get_pad_area(c)
        stacked_die_bound_area == get_stacked_die_area(c)
    IN  IF chip[c].bb_area # PyNone THEN Ok(chip[c].bb_area)
        ELSE IF ~pad_required_area.ok THEN pad_required_area
        ELSE Ok(Max2(Max2(stacked_die_bound_area, pad_required_area.v), chip_io_area))

\* ------------------------------------------------------------------------
\* Chip: yield, quality and cost
\* ------------------------------------------------------------------------

Stackup(c) == [i \in 1..Len(chip[c].stackup) |-> layer_list[chip[c].stackup[i]]]

compute_layer_aware_yield(c) ==
    Prod([i \in 1..Len(chip[c].stackup) |->
             layer_yield(Stackup(c)[i], chip[c].core_area + get_io_area(c))])

quality_yield(c) ==
    Prod([i \in 1..Len(chip[c].chips) |-> chip[chip[c].chips[i]].quality])

compute_chip_yield(c) ==
    LET a == assembly_process_list[chip[c].assembly_process]
        wafer_process_yield == wafer_process_list[chip[c].wafer_process].wafer_process_yield
        assem_yield == assembly_yield(a, Len(chip[c].chips), get_chips_signal_count(c),
                                      get_stacked_die_area(c))
    IN  FMul(chip[c].self_quality,
             FMul(FMul(quality_yield(c), assem_yield), wafer_process_yield))

\* The first fatal outcome of a list of outcomes, or the sum of the values.
RECURSIVE SumOutcomes(_, _)
SumOutcomes(s, n) ==
    IF n = 0 THEN Ok(0)
    ELSE LET before == SumOutcomes(s, n - 1)
         IN  IF ~before.ok THEN before
             ELSE IF ~s[n].ok THEN s[n]
             ELSE Ok(before.v + s[n].v)

get_layer_aware_cost(c) ==
    SumOutcomes([i \in 1..Len(chip[c].stackup) |->
                    layer_cost(Stackup(c)[i], chip[c].area,
                               wafer_process_list[chip[c].wafer_process])],
                Len(chip[c].stackup))

get_mask_cost(c) ==
    FMul(Sum([i \in 1..Len(chip[c].stackup) |-> Stackup(c)[i].mask_cost]),
         chip[c].reticle_share)

compute_nre_front_end_cost(c) ==
    LET w == wafer_process_list[chip[c].wafer_process]
    IN  FMul(chip[c].core_area,
             FMul(w.nre_front_end_cost_per_mm2_memory, chip[c].fraction_memory)
             + FMul(w.nre_front_end_cost_per_mm2_logic, chip[c].fraction_logic)
             + FMul(w.nre_front_end_cost_per_mm2_analog, chip[c].fraction_analog))

compute_nre_back_end_cost(c) ==
    LET w == wafer_process_list[chip[c].wafer_process]
    IN  FMul(chip[c].core_area,
             FMul(w.nre_back_end_cost_per_mm2_memory, chip[c].fraction_memory)
             + FMul(w.nre_back_end_cost_per_mm2_logic, chip[c].fraction_logic)
             + FMul(w.nre_back_end_cost_per_mm2_analog, chip[c].fraction_analog))

compute_nre_design_cost(c) == compute_nre_front_end_cost(c) + compute_nre_back_end_cost(c)

\* quantity is an integer.
compute_nre_cost(c) == (chip[c].nre_design_cost + get_mask_cost(c)) \div chip[c].quantity

\* ------------------------------------------------------------------------
\* Test: yields, qualities and costs of the test stages of chip c.  The
\* pattern counts and the failure distribution selectors are integers.
\* ------------------------------------------------------------------------

compute_self_test_yield(t, c) ==
    IF t.test_self = PyTrue
    THEN Scale - FMul(Scale - chip[c].self_true_yield, t.self_defect_coverage)
    ELSE Scale

compute_self_quality(t, c) == FDiv(chip[c].self_true_yield, chip[c].self_test_yield)

compute_assembly_test_yield(t, c) ==
    IF t.test_assembly = PyTrue
    THEN Scale - FMul(Scale - chip[c].chip_true_yield, t.assembly_defect_coverage)
    ELSE Scale

compute_assembly_quality(t, c) == FDiv(chip[c].chip_true_yield, chip[c].chip_test_yield)

\* The random number generator called for failure distribution dist, "" when
\* the derating factor is not random, "unbound" when no branch assigns it.
SelfDeratingSource(dist) ==
    IF dist = 1 THEN "gauss"
    ELSE IF dist = 2 THEN ""
    ELSE IF dist = 3 THEN "expovariate"
    ELSE IF dist = 4 THEN "lognormvariate"
    ELSE "unbound"

\* The second test for 1 is never reached.
AssemblyDeratingSource(dist) ==
    IF dist = 1 THEN "gauss"
    ELSE IF dist = 1 THEN ""
    ELSE IF dist = 2 THEN "expovariate"
    ELSE IF dist = 3 THEN "lognormvariate"
    ELSE "unbound"

\* The derating factor: draw is the number the generator returns.
Derating(source, chip_true_yield, draw) ==
    IF source = "unbound" THEN Fatal("UnboundLocalError")
    ELSE IF source = "expovariate" /\ chip_true_yield = 0 THEN Fatal("ZeroDivisionError")
    ELSE IF source = "lognormvariate" /\ chip_true_yield <= 0 THEN Fatal("ValueError")
    ELSE IF source = "" THEN Ok(Scale)
    ELSE Ok(draw)

compute_self_test_cost(t, c, draw) ==
    IF t.test_self = PyFalse THEN Ok(0)
    ELSE LET test_cost == FMul(chip[c].core_area, t.self_test_cost_per_mm2)
                          * t.self_pattern_count
             derating_factor == Derating(SelfDeratingSource(t.self_test_failure_dist),
                                         chip[c].chip_true_yield, draw)
         IN  IF ~derating_factor.ok THEN derating_factor
             ELSE Ok(FMul(derating_factor.v, test_cost))

compute_assembly_test_cost(t, c, draw) ==
    IF t.test_assembly = PyFalse THEN Ok(0)
    ELSE LET area == chip[c].core_area
                     + Sum([i \in 1..Len(chip[c].chips) |-> chip[chip[c].chips[i]].core_area])
             test_cost == FMul(area, t.assembly_test_cost_per_mm2)
                          * t.assembly_pattern_count
             derating_factor == Derating(AssemblyDeratingSource(t.assembly_test_failure_dist),
                                         chip[c].chip_true_yield, draw)
         IN  IF ~derating_factor.ok THEN derating_factor
             ELSE Ok(FMul(derating_factor.v, test_cost))

compute_self_cost(c, draw) ==
    LET self_layer_cost == get_layer_aware_cost(c)
        nre_cost == compute_nre_cost(c)
        self_test_cost == compute_self_test_cost(test_process_list[chip[c].test_process], c, draw)
    IN  IF chip[c].bb_cost # PyNone THEN Ok(chip[c].bb_cost)
        ELSE IF ~self_layer_cost.ok THEN self_layer_cost
        ELSE IF ~self_test_cost.ok THEN self_test_cost
        ELSE Ok(FDiv(self_layer_cost.v + nre_cost + self_test_cost.v,
                     chip[c].self_test_yield))

\* compute_cost without the cost of the children.
compute_cost_without_children(c, draw) ==
    LET a == assembly_process_list[chip[c].assembly_process]
        assem_cost == assembly_cost(a, Len(chip[c].chips), get_stacked_die_area(c))
        assembly_test_cost ==
            compute_assembly_test_cost(test_process_list[chip[c].test_process], c, draw)
    IN  IF ~assembly_test_cost.ok THEN assembly_test_cost
        ELSE Ok(FDiv(chip[c].self_cost + assem_cost + assembly_test_cost.v,
                     chip[c].chip_test_yield))

compute_cost(c, draw) ==
    LET stack_cost == Sum([i \in 1..Len(chip[c].chips) |-> chip[chip[c].chips[i]].cost])
        a == assembly_process_list[chip[c].assembly_process]
        assem_cost == assembly_cost(a, Len(chip[c].chips), get_stacked_die_area(c))
        assembly_test_cost ==
            compute_assembly_test_cost(test_process_list[chip[c].test_process], c, draw)
    IN  IF ~assembly_test_cost.ok THEN assembly_test_cost
        ELSE Ok(FDiv(chip[c].self_cost + stack_cost + assem_cost + assembly_test_cost.v,
                     chip[c].chip_test_yield))

\* ------------------------------------------------------------------------
\* Chip: looking up the processes of a definition
\* ------------------------------------------------------------------------

\* The index of the first process of the list with the name, 0 for None.
find_process(process_name, process_list) ==
    IF \E i \in 1..Len(process_list) : process_list[i].name = process_name
    THEN CHOOSE i \in 1..Len(process_list) :
             process_list[i].name = process_name
             /\ \A j \in 1..(i - 1) : process_list[j].name # process_name
    ELSE 0

find_wafer_process(wafer_process_name, process_list) ==
    LET wafer_process == find_process(wafer_process_name, process_list)
    IN  IF wafer_process = 0 THEN Fatal("Exiting") ELSE Ok(wafer_process)

find_assembly_process(assembly_process_name, process_list) ==
    LET assembly_process == find_process(assembly_process_name, process_list)
    IN  IF assembly_process = 0 THEN Fatal("Exiting") ELSE Ok(assembly_process)

find_test_process(test_process_name, process_list) ==
    LET test_process == find_process(test_process_name, process_list)
    IN  IF test_process = 0 THEN Fatal("Exiting") ELSE Ok(test_process)

\* The names of a stackup string "count:name,count:name,...", each name
\* repeated count times.  The string is the sequence of its [count, name].
RECURSIVE stackup_names(_)
stackup_names(stackup_string) ==
    IF stackup_string = <<>> THEN <<>>
    ELSE [i \in 1..Head(stackup_string).count |-> Head(stackup_string).name]
         \o stackup_names(Tail(stackup_string))

build_stackup(stackup_string, layers) ==
    LET names == stackup_names(stackup_string)
    IN  IF \E i \in 1..Len(stackup_string) : stackup_string[i].count < 0
        THEN Fatal("Error: Number of layers not valid.")
        ELSE IF \E i \in 1..Len(names) : find_process(names[i], layers) = 0
        THEN Fatal("Exiting")
        ELSE Ok([i \in 1..Len(names) |-> find_process(names[i], layers)])

\* ------------------------------------------------------------------------
\* The catalogs and the netlist the chips are built from
\* ------------------------------------------------------------------------

\* A wafer process as the loader leaves it: every field set, then static.
LoadedWaferProcess(name, wafer_fill_grid) ==
    [name |-> name, wafer_diameter |-> F(60), edge_exclusion |-> F(2),
     wafer_process_yield |-> Frac(98, 100), dicing_distance |-> Frac(1, 10),
     reticle_x |-> F(8), reticle_y |-> F(6), wafer_fill_grid |-> wafer_fill_grid,
     nre_front_end_cost_per_mm2_memory |-> F(1), nre_back_end_cost_per_mm2_memory |-> Frac(1, 2),
     nre_front_end_cost_per_mm2_logic |-> F(2), nre_back_end_cost_per_mm2_logic |-> F(1),
     nre_front_end_cost_per_mm2_analog |-> F(3), nre_back_end_cost_per_mm2_analog |-> F(1),
     static |-> TRUE]

WaferProcesses == <<LoadedWaferProcess("line", FALSE), LoadedWaferProcess("grid", TRUE)>>

Layers ==
    <<[name |-> "active", active |-> PyTrue, cost_per_mm2 |-> Frac(1, 10),
       defect_density |-> Frac(1, 100), critical_area_ratio |-> Frac(1, 2),
       clustering_factor |-> 2, litho_percent |-> Frac(3, 10), mask_cost |-> F(20),
       stitching_yield |-> Frac(1, 2), static |-> TRUE],
      [name |-> "metal", active |-> PyTrue, cost_per_mm2 |-> Frac(1, 20),
       defect_density |-> Frac(1, 100), critical_area_ratio |-> Frac(1, 5),
       clustering_factor |-> 1, litho_percent |-> 0, mask_cost |-> F(10),
       stitching_yield |-> Frac(1, 2), static |-> TRUE]>>

\* An assembly process built with name "" and filled by its setters.
NewAssembly(name, bonding_pitch, die_separation) ==
    [name |-> name, materials_cost_per_mm2 |-> Frac(1, 10),
     picknplace_machine_cost |-> 24000000, picknplace_machine_lifetime |-> 2,
     picknplace_machine_uptime |-> Frac(9, 10),
     picknplace_technician_yearly_cost |-> 4000000,
     picknplace_time |-> F(10), picknplace_group |-> 1,
     bonding_machine_cost |-> 12000000, bonding_machine_lifetime |-> 2,
     bonding_machine_uptime |-> Frac(9, 10),
     bonding_machine_technician_yearly_cost |-> 4000000,
     bonding_time |-> F(20), bonding_group |-> 2,
     die_separation |-> die_separation, edge_exclusion |-> Frac(1, 2),
     max_pad_current_density |-> F(4), bonding_pitch |-> bonding_pitch,
     picknplace_cost_per_second |-> PyNone, bonding_cost_per_second |-> PyNone,
     bonding_yield |-> Frac(99, 100), alignment_yield |-> Frac(99, 100),
     dielectric_bond_defect_density |-> 0, static |-> FALSE]

\* The loader computes the costs per second and then calls set_static.
LoadedAssembly(name, bonding_pitch, die_separation) ==
    [AssemblyAfterGet(NewAssembly(name, bonding_pitch, die_separation))
        EXCEPT !.static = TRUE]

\* "organic" comes from the loader; "silicon" was built by the constructor
\* and the setters alone, so its costs per second are not computed yet.
Assemblies ==
    <<LoadedAssembly("organic", F(1), Frac(1, 2)),
      [NewAssembly("silicon", F(2), F(1)) EXCEPT !.static = TRUE]>>

Tests ==
    <<[name |-> "full", test_self |-> PyTrue, test_assembly |-> PyTrue,
       self_defect_coverage |-> Frac(9, 10), assembly_defect_coverage |-> Frac(8, 10),
       self_test_cost_per_mm2 |-> Frac(1, 100), assembly_test_cost_per_mm2 |-> Frac(1, 100),
       self_pattern_count |-> 10, assembly_pattern_count |-> 10,
       self_test_failure_dist |-> 2, assembly_test_failure_dist |-> 1, static |-> TRUE],
      [name |-> "none", test_self |-> PyFalse, test_assembly |-> PyFalse,
       self_defect_coverage |-> 0, assembly_defect_coverage |-> 0,
       self_test_cost_per_mm2 |-> 0, assembly_test_cost_per_mm2 |-> 0,
       self_pattern_count |-> 0, assembly_pattern_count |-> 0,
       self_test_failure_dist |-> 0, assembly_test_failure_dist |-> 0, static |-> TRUE],
      [name |-> "self", test_self |-> PyTrue, test_assembly |-> PyFalse,
       self_defect_coverage |-> Frac(9, 10), assembly_defect_coverage |-> 0,
       self_test_cost_per_mm2 |-> Frac(1, 100), assembly_test_cost_per_mm2 |-> 0,
       self_pattern_count |-> 10, assembly_pattern_count |-> 0,
       self_test_failure_dist |-> 1, assembly_test_failure_dist |-> 0, static |-> TRUE]>>

\* "par" comes from the loader, which leaves bidirectional False; "ser" was
\* built by the constructor with bidirectional = True.
IOs ==
    <<[type |-> "par", rx_area |-> Frac(1, 100), tx_area |-> Frac(2, 100),
       shoreline |-> F(1), bandwidth |-> F(1), wire_count |-> 4,
       bidirectional |-> PyFalse, energy_per_bit |-> Frac(1, 10), reach |-> F(5),
       static |-> TRUE],
      [type |-> "ser", rx_area |-> Frac(3, 100), tx_area |-> Frac(3, 100),
       shoreline |-> F(1), bandwidth |-> F(2), wire_count |-> 2,
       bidirectional |-> PyTrue, energy_per_bit |-> Frac(1, 5), reach |-> F(2),
       static |-> TRUE]>>

\* The names of the blocks of the netlist: one per chip of the largest tree
\* and one block that is no chip of the design.
NamePool == <<"A", "B", "C", "D", "E", "F", "G", "H">>

ChipName(i) == NamePool[i]

BlockNames == [i \in 1..(MaxChips + 1) |-> IF i <= MaxChips THEN ChipName(i) ELSE "ext"]

NBlocks == MaxChips + 1

\* Two netlists: no connection at all, and a netlist whose matrices are not
\* symmetric: every block drives the next one over "par", and every block
\* but the first drives the first over "ser".
Unconnected ==
    [types |-> <<"par", "ser">>,
     m |-> [t \in {"par", "ser"} |-> [i \in 1..NBlocks |-> [j \in 1..NBlocks |-> 0]]]]

Connected ==
    [types |-> <<"par", "ser">>,
     m |-> [t \in {"par", "ser"} |->
              [i \in 1..NBlocks |-> [j \in 1..NBlocks |->
                  IF t = "par" THEN (IF j = i + 1 THEN 2 ELSE 0)
                  ELSE (IF j = 1 /\ i # 1 THEN 1 ELSE 0)]]]]

Utilization ==
    [t \in {"par", "ser"} |-> [i \in 1..NBlocks |-> [j \in 1..NBlocks |-> Frac(1, 2)]]]

\* ------------------------------------------------------------------------
\* The chip definitions
\* ------------------------------------------------------------------------

\* The attributes of a chip element.  A numeric attribute holds its float,
\* or PyNone when the attribute is the empty string.
Logic(i) ==
    [name |-> ChipName(i), core_area |-> F(25), aspect_ratio |-> PyNone,
     x_location |-> PyNone, y_location |-> PyNone,
     bb_area |-> PyNone, bb_cost |-> PyNone, bb_quality |-> PyNone, bb_power |-> PyNone,
     fraction_memory |-> Frac(2, 10), fraction_logic |-> Frac(5, 10),
     fraction_analog |-> Frac(3, 10), reticle_share |-> F(1), buried |-> "False",
     assembly_process |-> "organic", test_process |-> "full",
     stackup |-> <<[count |-> 1, name |-> "active"], [count |-> 2, name |-> "metal"]>>,
     wafer_process |-> "line", power |-> F(1), core_voltage |-> F(1), quantity |-> 10]

BlackBox(i) ==
    [Logic(i) EXCEPT !.core_area = F(9), !.bb_area = F(30), !.bb_cost = F(12),
                     !.bb_quality = Frac(95, 100), !.bb_power = F(2),
                     !.test_process = "none"]

\* A small buried chip that needs much power; its stackup names a layer that
\* is in no catalog, zero times.
Bridge(i) ==
    [Logic(i) EXCEPT !.core_area = F(4), !.aspect_ratio = F(2), !.buried = "True",
                     !.power = F(5), !.wafer_process = "grid",
                     !.assembly_process = "silicon", !.test_process = "self",
                     !.stackup = <<[count |-> 1, name |-> "active"],
                                   [count |-> 0, name |-> "rdl"],
                                   [count |-> 1, name |-> "metal"]>>]

\* A chip with no core whose name is no block of the netlist.
Interposer(i) ==
    [Logic(i) EXCEPT !.name = "interposer", !.core_area = 0, !.power = 0,
                     !.stackup = <<[count |-> 3, name |-> "metal"]>>]

GoodKinds == {"Logic", "BlackBox", "Bridge", "Interposer"}

BadKinds == {"wafer_process", "assembly_process", "test_process", "layer", "count",
             "buried", "name"}

\* The definition of each kind for node i: the bad kinds are Logic with one
\* attribute spoilt.
Definition(kind, i) ==
    CASE kind = "Logic" -> Logic(i)
      [] kind = "BlackBox" -> BlackBox(i)
      [] kind = "Bridge" -> Bridge(i)
      [] kind = "Interposer" -> Interposer(i)
      [] kind = "wafer_process" -> [Logic(i) EXCEPT !.wafer_process = "missing"]
      [] kind = "assembly_process" -> [Logic(i) EXCEPT !.assembly_process = "missing"]
      [] kind = "test_process" -> [Logic(i) EXCEPT !.test_process = "missing"]
      [] kind = "layer" ->
             [Logic(i) EXCEPT !.stackup = <<[count |-> 1, name |-> "active"],
                                            [count |-> 1, name |-> "rdl"]>>]
      [] kind = "count" -> [Logic(i) EXCEPT !.stackup = <<[count |-> -1, name |-> "metal"]>>]
      [] kind = "buried" -> [Logic(i) EXCEPT !.buried = "true"]
      [] kind = "name" -> [Logic(i) EXCEPT !.name = ""]

BadDefinitions(i) == {Definition(kind, i) : kind \in BadKinds}

\* The definition trees, as the parent of each node; the nodes are numbered
\* in document order, node 1 is the root and its parent is 0.
RECURSIVE OnPathToRoot(_, _, _)
OnPathToRoot(p, a, i) == a = i \/ (i > 1 /\ OnPathToRoot(p, a, p[i]))

Trees ==
    UNION {{p \in [1..n -> 0..(n - 1)] :
               /\ p[1] = 0
               /\ \A i \in 2..n : p[i] >= 1 /\ OnPathToRoot(p, p[i], i - 1)}
           : n \in 1..MaxChips}

Nodes == 1..MaxChips

\* The fields of a Chip object before its constructor assigned them.
NoChip ==
    [parent_chip |-> 0, wafer_process |-> 0, assembly_process |-> 0, test_process |-> 0,
     stackup |-> <<>>, chips |-> <<>>,
     bb_area |-> Unset, bb_cost |-> Unset, bb_quality |-> Unset, bb_power |-> Unset,
     aspect_ratio |-> Unset, x_location |-> Unset, y_location |-> Unset,
     name |-> "<unset>", core_area |-> Unset, fraction_memory |-> Unset,
     fraction_logic |-> Unset, fraction_analog |-> Unset, reticle_share |-> Unset,
     quantity |-> Unset, buried |-> "<unset>", power |-> Unset, core_voltage |-> Unset,
     stack_power |-> Unset, io_power |-> Unset, total_power |-> Unset,
     nre_design_cost |-> Unset, area |-> Unset, self_true_yield |-> Unset,
     self_test_yield |-> Unset, self_quality |-> Unset, chip_true_yield |-> Unset,
     chip_test_yield |-> Unset, quality |-> Unset, self_cost |-> Unset, cost |-> Unset,
     static |-> FALSE]

\* The derived fields, in the order the constructor computes them.
DerivedFields ==
    <<"stack_power", "io_power", "total_power", "nre_design_cost", "area",
      "self_true_yield", "self_test_yield", "self_quality", "chip_true_yield",
      "chip_test_yield", "quality", "self_cost", "cost">>

\* The numbers random.gauss, random.expovariate and random.lognormvariate
\* may return.
Draws == {Frac(1, 2), Frac(3, 2)}

\* ------------------------------------------------------------------------
\* Initial states
\* ------------------------------------------------------------------------

InitCatalogs ==
    /\ wafer_process_list = WaferProcesses
    /\ assembly_process_list = Assemblies
    /\ test_process_list = Tests
    /\ layer_list = Layers
    /\ io_list = IOs

InitIdle ==
    /\ attrib = [i \in Nodes |-> Logic(i)]
    /\ chip = [i \in Nodes |-> NoChip]
    /\ pc = [i \in Nodes |-> "none"]
    /\ stack = <<>>
    /\ status = "running"
    /\ message = ""
    /\ drawn = [i \in Nodes |-> [self |-> Scale, assembly |-> Scale]]
    /\ call = [object |-> "", index |-> 0, setter |-> ""]
    /\ ret = 0
    /\ calls = 0
    /\ args = [fn |-> "", v |-> <<>>]
    /\ result = Pending

\* Nothing is built yet: the catalogs and the netlist are loaded and the
\* constructor of the root chip is about to be called.
Init ==
    /\ InitCatalogs
    /\ global_adjacency_matrix \in {Unconnected, Connected}
    /\ average_bandwidth_utilization = Utilization
    /\ block_names = BlockNames
    /\ etree \in Trees
    /\ menu = GoodKinds \cup BadKinds
    /\ static_arg = FALSE
    /\ InitIdle

\* ------------------------------------------------------------------------
\* Chip.__init__, one action per step of the constructor
\* ------------------------------------------------------------------------

\* The constructor of chip c is the innermost one running.
Running(c) == status = "running" /\ stack # <<>> /\ stack[Len(stack)] = c

Exceptions == {"ZeroDivisionError", "UnboundLocalError", "ValueError", "AttributeError"}

\* sys.exit(1) after printing the message, or an exception nobody catches.
Halt(msg) ==
    /\ status' = (IF msg \in Exceptions THEN "raise" ELSE "exit")
    /\ message' = msg
    /\ UNCHANGED <<catalog_vars, netlist_vars, design_vars, attrib, chip, pc, stack,
                   drawn, call_vars>>

\* The constructor goes on to its next step with field set to value.
Assign(c, field, value, next) ==
    /\ chip' = [chip EXCEPT ![c][field] = value]
    /\ pc' = [pc EXCEPT ![c] = next]
    /\ UNCHANGED <<catalog_vars, netlist_vars, design_vars, attrib, stack, status,
                   message, drawn, call_vars>>

\* Chip(...) is called: for the root by the user, for a child by the loop of
\* its parent over the chip elements of the definition.
InitBegin(c) ==
    /\ status = "running"
    /\ c \in 1..Len(etree)
    /\ pc[c] = "none"
    /\ \A k \in 1..(c - 1) : pc[k] # "none"
    /\ IF c = 1 THEN stack = <<>> ELSE Running(etree[c]) /\ pc[etree[c]] = "chips"
    /\ \E kind \in menu : attrib' = [attrib EXCEPT ![c] = Definition(kind, c)]
    /\ chip' = [chip EXCEPT ![c] = [NoChip EXCEPT !.parent_chip = etree[c]]]
    /\ pc' = [pc EXCEPT ![c] = "find"]
    /\ stack' = Append(stack, c)
    /\ UNCHANGED <<catalog_vars, netlist_vars, design_vars, status, message, drawn,
                   call_vars>>

InitFind(c) ==
    /\ Running(c)
    /\ pc[c] = "find"
    /\ LET wafer_process == find_wafer_process(attrib[c].wafer_process, wafer_process_list)
           assembly_process ==
               find_assembly_process(attrib[c].assembly_process, assembly_process_list)
           test_process == find_test_process(attrib[c].test_process, test_process_list)
           stackup == build_stackup(attrib[c].stackup, layer_list)
       IN  IF ~wafer_process.ok THEN Halt(wafer_process.msg)
           ELSE IF ~assembly_process.ok THEN Halt(assembly_process.msg)
           ELSE IF ~test_process.ok THEN Halt(test_process.msg)
           ELSE IF ~stackup.ok THEN Halt(stackup.msg)
           ELSE /\ chip' = [chip EXCEPT ![c].wafer_process = wafer_process.v,
                                        ![c].assembly_process = assembly_process.v,
                                        ![c].test_process = test_process.v,
                                        ![c].stackup = stackup.v,
                                        ![c].chips = <<>>]
                /\ pc' = [pc EXCEPT ![c] = "chips"]
                /\ UNCHANGED <<catalog_vars, netlist_vars, design_vars, attrib, stack,
                               status, message, drawn, call_vars>>

\* The constructor goes on without constructing the children.
InitChips_without_children(c) ==
    /\ Running(c)
    /\ pc[c] = "chips"
    /\ pc' = [pc EXCEPT ![c] = "attributes"]
    /\ UNCHANGED <<catalog_vars, netlist_vars, design_vars, attrib, chip, stack, status,
                   message, drawn, call_vars>>

\* The loop over the chip elements has constructed every child.
InitChips(c) ==
    /\ Running(c)
    /\ pc[c] = "chips"
    /\ \A k \in 1..Len(etree) : etree[k] = c => pc[k] # "none"
    /\ pc' = [pc EXCEPT ![c] = "attributes"]
    /\ UNCHANGED <<catalog_vars, netlist_vars, design_vars, attrib, chip, stack, status,
                   message, drawn, call_vars>>

InitAttributes(c) ==
    /\ Running(c)
    /\ pc[c] = "attributes"
    /\ LET a == attrib[c]
       IN  IF a.buried \notin {"True", "False"}
           THEN Halt("Error: Invalid buried parameter. Exiting...")
           ELSE IF a.name = ""
           THEN Halt("Error: Chip name is empty. Exiting...")
           ELSE /\ chip' = [chip EXCEPT ![c] =
                       [@ EXCEPT !.bb_area = a.bb_area, !.bb_cost = a.bb_cost,
                                 !.bb_quality = a.bb_quality, !.bb_power = a.bb_power,
                                 !.aspect_ratio = IF a.aspect_ratio = PyNone THEN Scale
                                                  ELSE a.aspect_ratio,
                                 !.x_location = a.x_location, !.y_location = a.y_location,
                                 !.name = a.name, !.core_area = a.core_area,
                                 !.fraction_memory = a.fraction_memory,
                                 !.fraction_logic = a.fraction_logic,
                                 !.fraction_analog = a.fraction_analog,
                                 !.reticle_share = a.reticle_share,
                                 !.quantity = a.quantity,
                                 !.buried = IF a.buried = "True" THEN PyTrue ELSE PyFalse,
                                 !.power = a.power, !.core_voltage = a.core_voltage]]
                /\ pc' = [pc EXCEPT ![c] = "stack_power"]
                /\ UNCHANGED <<catalog_vars, netlist_vars, design_vars, attrib, stack,
                               status, message, drawn, call_vars>>

InitStackPower(c) ==
    /\ Running(c)
    /\ pc[c] = "stack_power"
    /\ Assign(c, "stack_power", compute_stack_power(c), "io_power")

InitIoPower(c) ==
    /\ Running(c)
    /\ pc[c] = "io_power"
    /\ Assign(c, "io_power", get_signal_power(c, get_chip_list(c)), "total_power")

InitTotalPower(c) ==
    /\ Running(c)
    /\ pc[c] = "total_power"
    /\ Assign(c, "total_power",
              IF chip[c].bb_power = PyNone
              THEN chip[c].power + chip[c].io_power + chip[c].stack_power
              ELSE chip[c].bb_power + chip[c].stack_power,
              "nre_design_cost")

\* InitNreDesignCost of a constructor that calls set_self_true_yield next,
\* leaving set_area out.
InitNreDesignCost_then_self_true_yield(c) ==
    /\ Running(c)
    /\ pc[c] = "nre_design_cost"
    /\ Assign(c, "nre_design_cost", compute_nre_design_cost(c), "self_true_yield")

InitNreDesignCost(c) ==
    /\ Running(c)
    /\ pc[c] = "nre_design_cost"
    /\ Assign(c, "nre_design_cost", compute_nre_design_cost(c), "area")

InitArea(c) ==
    /\ Running(c)
    /\ pc[c] = "area"
    /\ LET area == compute_area(c)
       IN  IF area.ok THEN Assign(c, "area", area.v, "self_true_yield")
           ELSE Halt(area.msg)

InitSelfTrueYield(c) ==
    /\ Running(c)
    /\ pc[c] = "self_true_yield"
    /\ Assign(c, "self_true_yield", compute_layer_aware_yield(c), "self_test_yield")

InitSelfTestYield(c) ==
    /\ Running(c)
    /\ pc[c] = "self_test_yield"
    /\ Assign(c, "self_test_yield",
              compute_self_test_yield(test_process_list[chip[c].test_process], c),
              "self_quality")

InitSelfQuality(c) ==
    /\ Running(c)
    /\ pc[c] = "self_quality"
    /\ Assign(c, "self_quality",
              IF chip[c].bb_quality = PyNone
              THEN compute_self_quality(test_process_list[chip[c].test_process], c)
              ELSE chip[c].bb_quality,
              "chip_true_yield")

InitChipTrueYield(c) ==
    /\ Running(c)
    /\ pc[c] = "chip_true_yield"
    /\ Assign(c, "chip_true_yield", compute_chip_yield(c), "chip_test_yield")

InitChipTestYield(c) ==
    /\ Running(c)
    /\ pc[c] = "chip_test_yield"
    /\ Assign(c, "chip_test_yield",
              compute_assembly_test_yield(test_process_list[chip[c].test_process], c),
              "quality")

InitQuality(c) ==
    /\ Running(c)
    /\ pc[c] = "quality"
    /\ Assign(c, "quality",
              compute_assembly_quality(test_process_list[chip[c].test_process], c),
              "self_cost")

RandomSources == {"gauss", "expovariate", "lognormvariate"}

\* SelfCostDraws for a compute_self_cost that never called the random number
\* generator.
SelfCostDraws_never(c) == FALSE

\* compute_self_cost calls the random number generator.
SelfCostDraws(c) ==
    LET t == test_process_list[chip[c].test_process]
    IN  /\ chip[c].bb_cost = PyNone
        /\ t.test_self # PyFalse
        /\ SelfDeratingSource(t.self_test_failure_dist) \in RandomSources

\* compute_cost calls the random number generator.
CostDraws(c) ==
    LET t == test_process_list[chip[c].test_process]
    IN  /\ t.test_assembly # PyFalse
        /\ AssemblyDeratingSource(t.assembly_test_failure_dist) \in RandomSources

InitSelfCost(c) ==
    /\ Running(c)
    /\ pc[c] = "self_cost"
    /\ \E draw \in (IF SelfCostDraws(c) THEN Draws ELSE {Scale}) :
          LET self_cost == compute_self_cost(c, draw)
          IN  IF ~self_cost.ok THEN Halt(self_cost.msg)
              ELSE /\ chip' = [chip EXCEPT ![c].self_cost = self_cost.v]
                   /\ pc' = [pc EXCEPT ![c] = "cost"]
                   /\ drawn' = [drawn EXCEPT ![c].self = draw]
                   /\ UNCHANGED <<catalog_vars, netlist_vars, design_vars, attrib, stack,
                                  status, message, call_vars>>

\* assembly_cost reads the costs per second through the getters, which fill
\* the caches of the assembly process.
InitCost(c) ==
    /\ Running(c)
    /\ pc[c] = "cost"
    /\ \E draw \in (IF CostDraws(c) THEN Draws ELSE {Scale}) :
          LET cost == compute_cost(c, draw)
          IN  IF ~cost.ok THEN Halt(cost.msg)
              ELSE /\ chip' = [chip EXCEPT ![c].cost = cost.v]
                   /\ pc' = [pc EXCEPT ![c] = "static"]
                   /\ drawn' = [drawn EXCEPT ![c].assembly = draw]
                   /\ assembly_process_list' =
                          [assembly_process_list EXCEPT ![chip[c].assembly_process] =
                              AssemblyAfterGet(@)]
                   /\ UNCHANGED <<wafer_process_list, test_process_list, layer_list,
                                  io_list, netlist_vars, design_vars, attrib, stack,
                                  status, message, call_vars>>

\* The constructor sets the static flag and returns: the parent appends the
\* new Chip to its chips, and the caller of the root constructor has its Chip.
InitReturn(c) ==
    /\ Running(c)
    /\ pc[c] = "static"
    /\ chip' = [i \in Nodes |->
                   IF i = c THEN [chip[c] EXCEPT !.static = static_arg]
                   ELSE IF i = etree[c] THEN [chip[i] EXCEPT !.chips = Append(@, c)]
                   ELSE chip[i]]
    /\ pc' = [pc EXCEPT ![c] = "built"]
    /\ stack' = SubSeq(stack, 1, Len(stack) - 1)
    /\ status' = (IF c = 1 THEN "done" ELSE status)
    /\ UNCHANGED <<catalog_vars, netlist_vars, design_vars, attrib, message, drawn,
                   call_vars>>

Construct(c) ==
    \/ InitBegin(c)
    \/ InitFind(c)
    \/ InitChips(c)
    \/ InitAttributes(c)
    \/ InitStackPower(c)
    \/ InitIoPower(c)
    \/ InitTotalPower(c)
    \/ InitNreDesignCost(c)
    \/ InitArea(c)
    \/ InitSelfTrueYield(c)
    \/ InitSelfTestYield(c)
    \/ InitSelfQuality(c)
    \/ InitChipTrueYield(c)
    \/ InitChipTestYield(c)
    \/ InitQuality(c)
    \/ InitSelfCost(c)
    \/ InitCost(c)
    \/ InitReturn(c)

Next == \E c \in Nodes : Construct(c)

Spec == Init /\ [][Next]_vars

\* ------------------------------------------------------------------------
\* The setters of Chip, called on the chips of a design that is built
\* ------------------------------------------------------------------------

\* The setter returns r to its caller.
Called(object, index, setter, r) ==
    /\ call' = [object |-> object, index |-> index, setter |-> setter]
    /\ ret' = r
    /\ calls' = calls + 1
    /\ UNCHANGED apply_vars

\* The caller holds the root Chip and may call one more setter on chip c.
MayCall(c) ==
    /\ status = "done"
    /\ calls < MaxSetterCalls
    /\ pc[c] = "built"

\* The fields with a setter set_<field> of the form
\*     if (self.static): print(...); return 1
\*     else: self.<field> = value; return 0
ChipGuardedFields ==
    {"name", "aspect_ratio", "x_location", "y_location", "core_area", "fraction_memory",
     "fraction_logic", "fraction_analog", "reticle_share", "buried", "self_cost", "cost",
     "self_true_yield", "chip_true_yield", "self_test_yield", "chip_test_yield",
     "self_quality", "quality", "assembly_process", "stackup", "test_process", "power",
     "core_voltage", "io_power", "total_power", "quantity"}

\* A value of the type of the field that no chip of the designs has there.
ChipValue(field) ==
    CASE field = "name" -> "renamed"
      [] field = "buried" -> PyTrue
      [] field = "stackup" -> <<2>>
      [] field \in {"assembly_process", "test_process"} -> 2
      [] OTHER -> 7

Chip_set(c, field) ==
    /\ MayCall(c)
    /\ IF chip[c].static
       THEN chip' = chip /\ Called("Chip", c, field, 1)
       ELSE /\ chip' = [chip EXCEPT ![c][field] = ChipValue(field)]
            /\ Called("Chip", c, field, 0)
    /\ UNCHANGED <<catalog_vars, netlist_vars, design_vars, attrib, pc, stack, status,
                   message, drawn>>

\* buildChips is no method of Chip.
Chip_set_chip_definitions(c) ==
    /\ MayCall(c)
    /\ IF chip[c].static
       THEN /\ Called("Chip", c, "chip_definitions", 1)
            /\ UNCHANGED <<status, message>>
       ELSE /\ status' = "raise"
            /\ message' = "AttributeError"
            /\ call' = [object |-> "Chip", index |-> c, setter |-> "chip_definitions"]
            /\ calls' = calls + 1
            /\ UNCHANGED <<ret, apply_vars>>
    /\ UNCHANGED <<catalog_vars, netlist_vars, design_vars, attrib, chip, pc, stack, drawn>>

\* set_stack_power, set_area and set_nre_design_cost take no value: they
\* compute it, and do not look at the static flag.
Chip_set_stack_power(c) ==
    /\ MayCall(c)
    /\ chip' = [chip EXCEPT ![c].stack_power = compute_stack_power(c)]
    /\ Called("Chip", c, "stack_power", 0)
    /\ UNCHANGED <<catalog_vars, netlist_vars, design_vars, attrib, pc, stack, status,
                   message, drawn>>

Chip_set_area(c) ==
    /\ MayCall(c)
    /\ LET area == compute_area(c)
       IN  IF area.ok
           THEN /\ chip' = [chip EXCEPT ![c].area = area.v]
                /\ Called("Chip", c, "area", 0)
                /\ UNCHANGED <<status, message>>
           ELSE /\ status' = (IF area.msg \in Exceptions THEN "raise" ELSE "exit")
                /\ message' = area.msg
                /\ call' = [object |-> "Chip", index |-> c, setter |-> "area"]
                /\ calls' = calls + 1
                /\ UNCHANGED <<chip, ret, apply_vars>>
    /\ UNCHANGED <<catalog_vars, netlist_vars, design_vars, attrib, pc, stack, drawn>>

Chip_set_nre_design_cost(c) ==
    /\ MayCall(c)
    /\ chip' = [chip EXCEPT ![c].nre_design_cost = compute_nre_design_cost(c)]
    /\ Called("Chip", c, "nre_design_cost", 0)
    /\ UNCHANGED <<catalog_vars, netlist_vars, design_vars, attrib, pc, stack, status,
                   message, drawn>>

Chip_set_static(c) ==
    /\ MayCall(c)
    /\ chip' = [chip EXCEPT ![c].static = TRUE]
    /\ Called("Chip", c, "static", 0)
    /\ UNCHANGED <<catalog_vars, netlist_vars, design_vars, attrib, pc, stack, status,
                   message, drawn>>

\* A design of a chip over one child in a connected netlist is built, static
\* or not, and its caller calls setters on the two chips.
InitSetters ==
    /\ InitCatalogs
    /\ global_adjacency_matrix = Connected
    /\ average_bandwidth_utilization = Utilization
    /\ block_names = BlockNames
    /\ etree = <<0, 1>>
    /\ menu = {"Logic", "Interposer"}
    /\ static_arg \in BOOLEAN
    /\ InitIdle

NextSetters ==
    \/ \E c \in Nodes : Construct(c)
    \/ \E c \in Nodes, field \in ChipGuardedFields : Chip_set(c, field)
    \/ \E c \in Nodes : Chip_set_chip_definitions(c)
    \/ \E c \in Nodes : Chip_set_stack_power(c)
    \/ \E c \in Nodes : Chip_set_area(c)
    \/ \E c \in Nodes : Chip_set_nre_design_cost(c)
    \/ \E c \in Nodes : Chip_set_static(c)

SpecSetters == InitSetters /\ [][NextSetters]_vars

\* ------------------------------------------------------------------------
\* The setters of WaferProcess, IO, Layer, Assembly and Test, called on the
\* records of the catalogs
\* ------------------------------------------------------------------------

\* The caller may call one more setter.
MayCallRecord == status = "running" /\ calls < MaxSetterCalls

\* The record after the setter of the form
\*     if (self.static): print(...); return 1
\*     else: self.<field> = value; return 0
\* and the value the setter returns.
GuardedSet(record, field, value) ==
    IF record.static THEN [record |-> record, ret |-> 1]
    ELSE [record |-> [record EXCEPT ![field] = value], ret |-> 0]

\* A value of the type of the field: a str for the names and the flags read
\* from the definition files, a number for the others.
StrFields == {"name", "type", "active", "bidirectional", "test_self", "test_assembly"}

RecordValue(field) == IF field \in StrFields THEN "renamed" ELSE 7

\* Some parameter of the record among fields is None.  The names, the types
\* and the flags are given in every record of the model, so that the fields
\* tested are the numeric ones.
Undefined(record, fields) == \E f \in fields : record[f] = PyNone

\* The record built with the parameters of omitted left at their default None.
Omit(record, omitted) ==
    [f \in DOMAIN record |-> IF f \in omitted THEN PyNone ELSE record[f]]

design_state == <<netlist_vars, design_vars, attrib, chip, pc, stack, status, message, drawn>>

WaferProcessGuardedFields ==
    {"name", "wafer_diameter", "edge_exclusion", "dicing_distance", "reticle_x", "reticle_y",
     "nre_front_end_cost_per_mm2_memory", "nre_back_end_cost_per_mm2_memory",
     "nre_front_end_cost_per_mm2_logic", "nre_back_end_cost_per_mm2_logic",
     "nre_front_end_cost_per_mm2_analog", "nre_back_end_cost_per_mm2_analog"}

WaferProcess_set(i, field, value) ==
    /\ MayCallRecord
    /\ LET set == GuardedSet(wafer_process_list[i], field, value)
       IN  /\ wafer_process_list' = [wafer_process_list EXCEPT ![i] = set.record]
           /\ Called("WaferProcess", i, field, set.ret)
    /\ UNCHANGED <<assembly_process_list, test_process_list, layer_list, io_list,
                   design_state>>

\* A yield outside [0, 1] is refused.
WaferProcess_set_wafer_process_yield(i, value) ==
    /\ MayCallRecord
    /\ IF wafer_process_list[i].static \/ value < 0 \/ value > Scale
       THEN /\ Called("WaferProcess", i, "wafer_process_yield", 1)
            /\ UNCHANGED wafer_process_list
       ELSE /\ wafer_process_list' =
                   [wafer_process_list EXCEPT ![i].wafer_process_yield = value]
            /\ Called("WaferProcess", i, "wafer_process_yield", 0)
    /\ UNCHANGED <<assembly_process_list, test_process_list, layer_list, io_list,
                   design_state>>

\* The value is the str of the definition file.
WaferProcess_set_wafer_fill_grid(i, value) ==
    /\ MayCallRecord
    /\ LET set == GuardedSet(wafer_process_list[i], "wafer_fill_grid",
                             value = "True" \/ value = "true")
       IN  /\ wafer_process_list' = [wafer_process_list EXCEPT ![i] = set.record]
           /\ Called("WaferProcess", i, "wafer_fill_grid", set.ret)
    /\ UNCHANGED <<assembly_process_list, test_process_list, layer_list, io_list,
                   design_state>>

\* The numeric parameters the constructor of WaferProcess tests for None.
WaferProcessInitChecked ==
    {"wafer_diameter", "edge_exclusion", "wafer_process_yield", "reticle_x", "reticle_y"}

\* The numeric parameters of WaferProcess; set_static tests them all.
WaferProcessParameters == (WaferProcessGuardedFields \ {"name"}) \cup {"wafer_process_yield"}

\* set_static of WaferProcess exits when a parameter is None.
WaferProcess_set_static(i) ==
    /\ MayCallRecord
    /\ IF Undefined(wafer_process_list[i], WaferProcessParameters)
       THEN /\ status' = "exit"
            /\ message' = "Error: Attempt to set wafer process static without defining all parameters. Exiting..."
            /\ call' = [object |-> "WaferProcess", index |-> i, setter |-> "static"]
            /\ calls' = calls + 1
            /\ UNCHANGED <<wafer_process_list, ret, apply_vars>>
       ELSE /\ wafer_process_list' = [wafer_process_list EXCEPT ![i].static = TRUE]
            /\ Called("WaferProcess", i, "static", 0)
            /\ UNCHANGED <<status, message>>
    /\ UNCHANGED <<assembly_process_list, test_process_list, layer_list, io_list,
                   netlist_vars, design_vars, attrib, chip, pc, stack, drawn>>

IOGuardedFields ==
    {"type", "rx_area", "tx_area", "shoreline", "bandwidth", "wire_count",
     "energy_per_bit", "reach"}

IO_set(i, field, value) ==
    /\ MayCallRecord
    /\ LET set == GuardedSet(io_list[i], field, value)
       IN  /\ io_list' = [io_list EXCEPT ![i] = set.record]
           /\ Called("IO", i, field, set.ret)
    /\ UNCHANGED <<wafer_process_list, assembly_process_list, test_process_list,
                   layer_list, design_state>>

IO_set_bidirectional(i, value) ==
    /\ MayCallRecord
    /\ LET set == GuardedSet(io_list[i], "bidirectional",
                             IF value = "True" \/ value = "true" THEN PyTrue ELSE PyFalse)
       IN  /\ io_list' = [io_list EXCEPT ![i] = set.record]
           /\ Called("IO", i, "bidirectional", set.ret)
    /\ UNCHANGED <<wafer_process_list, assembly_process_list, test_process_list,
                   layer_list, design_state>>

\* The numeric parameters of IO.
IOParameters == IOGuardedFields \ {"type"}

\* set_static of IO prints an error when a parameter is None and goes on.
IO_set_static(i) ==
    /\ MayCallRecord
    /\ io_list' = [io_list EXCEPT ![i].static = TRUE]
    /\ Called("IO", i, "static", 0)
    /\ UNCHANGED <<wafer_process_list, assembly_process_list, test_process_list,
                   layer_list, design_state>>

LayerGuardedFields ==
    {"name", "active", "cost_per_mm2", "defect_density", "critical_area_ratio",
     "clustering_factor", "litho_percent", "mask_cost", "stitching_yield"}

Layer_set(i, field, value) ==
    /\ MayCallRecord
    /\ LET set == GuardedSet(layer_list[i], field, value)
       IN  /\ layer_list' = [layer_list EXCEPT ![i] = set.record]
           /\ Called("Layer", i, field, set.ret)
    /\ UNCHANGED <<wafer_process_list, assembly_process_list, test_process_list, io_list,
                   design_state>>

\* The numeric parameters of Layer.
LayerParameters == LayerGuardedFields \ {"name", "active"}

\* set_static of Layer prints an error when a parameter is None and goes on.
Layer_set_static(i) ==
    /\ MayCallRecord
    /\ layer_list' = [layer_list EXCEPT ![i].static = TRUE]
    /\ Called("Layer", i, "static", 0)
    /\ UNCHANGED <<wafer_process_list, assembly_process_list, test_process_list, io_list,
                   design_state>>

\* set_bonding_technician_yearly_cost assigns the field
\* bonding_machine_technician_yearly_cost.
AssemblyGuardedFields ==
    {"name", "materials_cost_per_mm2", "picknplace_machine_cost",
     "picknplace_machine_lifetime", "picknplace_machine_uptime",
     "picknplace_technician_yearly_cost", "picknplace_time", "picknplace_group",
     "bonding_machine_cost", "bonding_machine_lifetime", "bonding_machine_uptime",
     "bonding_machine_technician_yearly_cost", "bonding_time", "bonding_group",
     "die_separation", "edge_exclusion", "bonding_pitch", "max_pad_current_density",
     "alignment_yield", "bonding_yield", "dielectric_bond_defect_density"}

Assembly_set(i, field) ==
    /\ MayCallRecord
    /\ LET set == GuardedSet(assembly_process_list[i], field, RecordValue(field))
       IN  /\ assembly_process_list' = [assembly_process_list EXCEPT ![i] = set.record]
           /\ Called("Assembly", i, field, set.ret)
    /\ UNCHANGED <<wafer_process_list, test_process_list, layer_list, io_list,
                   design_state>>

\* The two setters of the costs per second take no value and do not look at
\* the static flag.
Assembly_set_picknplace_cost_per_second(i) ==
    /\ MayCallRecord
    /\ assembly_process_list' =
           [assembly_process_list EXCEPT ![i].picknplace_cost_per_second =
               compute_picknplace_cost_per_second(assembly_process_list[i])]
    /\ Called("Assembly", i, "picknplace_cost_per_second", 0)
    /\ UNCHANGED <<wafer_process_list, test_process_list, layer_list, io_list,
                   design_state>>

Assembly_set_bonding_cost_per_second(i) ==
    /\ MayCallRecord
    /\ assembly_process_list' =
           [assembly_process_list EXCEPT ![i].bonding_cost_per_second =
               compute_bonding_cost_per_second(assembly_process_list[i])]
    /\ Called("Assembly", i, "bonding_cost_per_second", 0)
    /\ UNCHANGED <<wafer_process_list, test_process_list, layer_list, io_list,
                   design_state>>

Assembly_set_static(i) ==
    /\ MayCallRecord
    /\ assembly_process_list' = [assembly_process_list EXCEPT ![i].static = TRUE]
    /\ Called("Assembly", i, "static", 0)
    /\ UNCHANGED <<wafer_process_list, test_process_list, layer_list, io_list,
                   design_state>>

TestGuardedFields ==
    {"name", "test_self", "test_assembly", "self_defect_coverage",
     "assembly_defect_coverage", "self_test_cost_per_mm2", "assembly_test_cost_per_mm2",
     "self_pattern_count", "assembly_pattern_count", "self_test_failure_dist",
     "assembly_test_failure_dist"}

Test_set(i, field) ==
    /\ MayCallRecord
    /\ LET set == GuardedSet(test_process_list[i], field, RecordValue(field))
       IN  /\ test_process_list' = [test_process_list EXCEPT ![i] = set.record]
           /\ Called("Test", i, field, set.ret)
    /\ UNCHANGED <<wafer_process_list, assembly_process_list, layer_list, io_list,
                   design_state>>

Test_set_static(i) ==
    /\ MayCallRecord
    /\ test_process_list' = [test_process_list EXCEPT ![i].static = TRUE]
    /\ Called("Test", i, "static", 0)
    /\ UNCHANGED <<wafer_process_list, assembly_process_list, layer_list, io_list,
                   design_state>>

\* The first record of a catalog before its loader called set_static.
Loading(process_list) == [process_list EXCEPT ![1].static = FALSE]

\* The catalogs are loaded, or the first record of each is still being
\* loaded; no chip is built.
InitCatalog ==
    /\ \/ InitCatalogs
       \/ /\ wafer_process_list = Loading(WaferProcesses)
          /\ assembly_process_list = Loading(Assemblies)
          /\ test_process_list = Loading(Tests)
          /\ layer_list = Loading(Layers)
          /\ io_list = Loading(IOs)
    /\ global_adjacency_matrix = Unconnected
    /\ average_bandwidth_utilization = Utilization
    /\ block_names = BlockNames
    /\ etree = <<0>>
    /\ menu = {"Logic"}
    /\ static_arg = FALSE
    /\ InitIdle

NextCatalog ==
    \/ \E i \in 1..Len(wafer_process_list), field \in WaferProcessGuardedFields :
           WaferProcess_set(i, field, RecordValue(field))
    \/ \E i \in 1..Len(wafer_process_list), value \in {Frac(1, 2), F(2)} :
           WaferProcess_set_wafer_process_yield(i, value)
    \/ \E i \in 1..Len(wafer_process_list), value \in {"True", "False"} :
           WaferProcess_set_wafer_fill_grid(i, value)
    \/ \E i \in 1..Len(wafer_process_list) : WaferProcess_set_static(i)
    \/ \E i \in 1..Len(io_list), field \in IOGuardedFields :
           IO_set(i, field, RecordValue(field))
    \/ \E i \in 1..Len(io_list), value \in {"True", "False"} :
           IO_set_bidirectional(i, value)
    \/ \E i \in 1..Len(io_list) : IO_set_static(i)
    \/ \E i \in 1..Len(layer_list), field \in LayerGuardedFields :
           Layer_set(i, field, RecordValue(field))
    \/ \E i \in 1..Len(layer_list) : Layer_set_static(i)
    \/ \E i \in 1..Len(assembly_process_list), field \in AssemblyGuardedFields :
           Assembly_set(i, field)
    \/ \E i \in 1..Len(assembly_process_list) : Assembly_set_picknplace_cost_per_second(i)
    \/ \E i \in 1..Len(assembly_process_list) : Assembly_set_bonding_cost_per_second(i)
    \/ \E i \in 1..Len(assembly_process_list) : Assembly_set_static(i)
    \/ \E i \in 1..Len(test_process_list), field \in TestGuardedFields : Test_set(i, field)
    \/ \E i \in 1..Len(test_process_list) : Test_set_static(i)

SpecCatalog == InitCatalog /\ [][NextCatalog]_vars

\* ------------------------------------------------------------------------
\* WaferProcess: the constructor and the setters
\* ------------------------------------------------------------------------

\* The WaferProcess the constructor builds from the fields of w, the yield and
\* the static flag, the parameters of omitted not given: the yield is stored
\* as it comes, and the object is made non-static when one of the parameters
\* the constructor tests is None.
WaferProcess_init(w, wafer_process_yield, omitted, static) ==
    LET self == Omit([w EXCEPT !.wafer_process_yield = wafer_process_yield,
                               !.static = static], omitted)
    IN  IF Undefined(self, WaferProcessInitChecked) THEN [self EXCEPT !.static = FALSE]
        ELSE self

\* The yields given to the constructor and to set_wafer_process_yield.
WaferYieldInputs == {0 - Frac(1, 2), 0, Frac(1, 2), Scale, Frac(3, 2)}

\* wafer_process_list[i] = WaferProcess(...)
WaferProcess_new(i, wafer_process_yield, omitted, static) ==
    /\ MayCallRecord
    /\ wafer_process_list' =
           [wafer_process_list EXCEPT ![i] = WaferProcess_init(@, wafer_process_yield, omitted, static)]
    /\ Called("WaferProcess", i, "__init__", 0)
    /\ UNCHANGED <<assembly_process_list, test_process_list, layer_list, io_list,
                   design_state>>

NextWaferProcess ==
    \/ \E i \in 1..Len(wafer_process_list), value \in WaferYieldInputs, static \in BOOLEAN :
           WaferProcess_new(i, value, {}, static)
    \/ \E i \in 1..Len(wafer_process_list), field \in WaferProcessGuardedFields :
           WaferProcess_set(i, field, RecordValue(field))
    \/ \E i \in 1..Len(wafer_process_list), value \in WaferYieldInputs :
           WaferProcess_set_wafer_process_yield(i, value)
    \/ \E i \in 1..Len(wafer_process_list), value \in {"True", "False"} :
           WaferProcess_set_wafer_fill_grid(i, value)
    \/ \E i \in 1..Len(wafer_process_list) : WaferProcess_set_static(i)

SpecWaferProcess == InitCatalog /\ [][NextWaferProcess]_vars

\* ------------------------------------------------------------------------
\* WaferProcess, IO and Layer: parameters left undefined
\* ------------------------------------------------------------------------

\* The Layer the constructor builds from the fields of l with the parameters
\* of omitted not given: a Layer with a None parameter is made non-static.
Layer_init(l, omitted, static) ==
    LET self == Omit([l EXCEPT !.static = static], omitted)
    IN  IF Undefined(self, LayerParameters) THEN [self EXCEPT !.static = FALSE] ELSE self

\* layer_list[i] = Layer(...)
Layer_new(i, omitted, static) ==
    /\ MayCallRecord
    /\ layer_list' = [layer_list EXCEPT ![i] = Layer_init(@, omitted, static)]
    /\ Called("Layer", i, "__init__", 0)
    /\ UNCHANGED <<wafer_process_list, assembly_process_list, test_process_list, io_list,
                   design_state>>

\* io_list[i] = IO(...): with a None parameter the constructor reads
\* self.area, which no IO has, so that no object is built.
IO_new(i, omitted, static) ==
    /\ MayCallRecord
    /\ IF omitted # {}
       THEN /\ status' = "raise"
            /\ message' = "AttributeError"
            /\ call' = [object |-> "IO", index |-> i, setter |-> "__init__"]
            /\ calls' = calls + 1
            /\ UNCHANGED <<io_list, ret, apply_vars>>
       ELSE /\ io_list' = [io_list EXCEPT ![i] =
                              [IO_init(@, @.bidirectional) EXCEPT !.static = static]]
            /\ Called("IO", i, "__init__", 0)
            /\ UNCHANGED <<status, message>>
    /\ UNCHANGED <<wafer_process_list, assembly_process_list, test_process_list, layer_list,
                   netlist_vars, design_vars, attrib, chip, pc, stack, drawn>>

\* The values given to the setter of a numeric parameter.
ParameterValues == {7, PyNone}

NextRecords ==
    \/ \E i \in 1..Len(wafer_process_list), static \in BOOLEAN,
          omitted \in {{}, {"dicing_distance"}, {"reticle_x"}} :
           WaferProcess_new(i, Frac(1, 2), omitted, static)
    \/ \E i \in 1..Len(wafer_process_list), value \in ParameterValues :
           WaferProcess_set(i, "dicing_distance", value)
    \/ \E i \in 1..Len(wafer_process_list) : WaferProcess_set_static(i)
    \/ \E i \in 1..Len(io_list), static \in BOOLEAN, omitted \in {{}, {"reach"}} :
           IO_new(i, omitted, static)
    \/ \E i \in 1..Len(io_list), value \in ParameterValues : IO_set(i, "reach", value)
    \/ \E i \in 1..Len(io_list) : IO_set_static(i)
    \/ \E i \in 1..Len(layer_list), static \in BOOLEAN, omitted \in {{}, {"mask_cost"}} :
           Layer_new(i, omitted, static)
    \/ \E i \in 1..Len(layer_list), value \in ParameterValues :
           Layer_set(i, "mask_cost", value)
    \/ \E i \in 1..Len(layer_list) : Layer_set_static(i)

SpecRecords == InitCatalog /\ [][NextRecords]_vars

\* ------------------------------------------------------------------------
\* The accessors and the compute functions of Chip, called on the chips of a
\* design that is built
\* ------------------------------------------------------------------------

\* The numeric fields with an accessor get_<field> of the form
\*     return self.<field>
ChipGetFields ==
    {"core_area", "quantity", "stack_power", "io_power", "total_power", "nre_design_cost",
     "area", "self_true_yield", "self_test_yield", "self_quality", "chip_true_yield",
     "chip_test_yield", "quality", "self_cost", "cost"}

\* The accessors that compute what they return.
ChipComputedGetters ==
    {"get_stacked_die_area", "get_io_area", "get_pad_area", "get_power_pads",
     "get_chips_signal_count", "get_layer_aware_cost", "get_mask_cost"}

ComputedGet(c, fn) ==
    CASE fn = "get_stacked_die_area" -> Ok(get_stacked_die_area(c))
      [] fn = "get_io_area" -> Ok(get_io_area(c))
      [] fn = "get_pad_area" -> get_pad_area(c)
      [] fn = "get_power_pads" -> Ok(get_power_pads(c))
      [] fn = "get_chips_signal_count" -> Ok(get_chips_signal_count(c))
      [] fn = "get_layer_aware_cost" -> get_layer_aware_cost(c)
      [] fn = "get_mask_cost" -> Ok(get_mask_cost(c))

\* The compute functions whose value the constructor stores, with the field
\* it stores the value in.
StoredIn ==
    [compute_area |-> "area", compute_chip_yield |-> "chip_true_yield",
     compute_self_cost |-> "self_cost", compute_cost |-> "cost"]

\* draw is the number the random number generator returns if it is called.
Recompute(c, fn, draw) ==
    CASE fn = "compute_area" -> compute_area(c)
      [] fn = "compute_chip_yield" -> Ok(compute_chip_yield(c))
      [] fn = "compute_self_cost" -> compute_self_cost(c, draw)
      [] fn = "compute_cost" -> compute_cost(c, draw)

\* The call kind(c, fn) returns outcome to its caller.
Accessed(kind, c, fn, outcome) ==
    /\ args' = [fn |-> kind, v |-> <<c, fn>>]
    /\ result' = outcome
    /\ calls' = calls + 1
    /\ UNCHANGED <<netlist_vars, design_vars, attrib, chip, pc, stack, status, message,
                   drawn, call, ret>>

Chip_get(c, field) ==
    /\ MayCall(c)
    /\ Accessed("get", c, field, Ok(chip[c][field]))
    /\ UNCHANGED catalog_vars

Chip_get_computed(c, fn) ==
    /\ MayCall(c)
    /\ Accessed("get", c, fn, ComputedGet(c, fn))
    /\ UNCHANGED catalog_vars

\* compute_cost reads the costs per second through the getters of the
\* assembly process.
Chip_compute(c, fn) ==
    /\ MayCall(c)
    /\ \E draw \in Draws : Accessed("compute", c, fn, Recompute(c, fn, draw))
    /\ assembly_process_list' =
           IF fn = "compute_cost"
           THEN [assembly_process_list EXCEPT ![chip[c].assembly_process] = AssemblyAfterGet(@)]
           ELSE assembly_process_list
    /\ UNCHANGED <<wafer_process_list, test_process_list, layer_list, io_list>>

InitAccessors ==
    /\ InitCatalogs
    /\ global_adjacency_matrix = Connected
    /\ average_bandwidth_utilization = Utilization
    /\ block_names = BlockNames
    /\ etree \in {<<0>>, <<0, 1>>}
    /\ menu = GoodKinds
    /\ static_arg = TRUE
    /\ InitIdle

NextAccessors ==
    \/ \E c \in Nodes : Construct(c)
    \/ \E c \in Nodes, field \in ChipGetFields : Chip_get(c, field)
    \/ \E c \in Nodes, fn \in ChipComputedGetters : Chip_get_computed(c, fn)
    \/ \E c \in Nodes, fn \in DOMAIN StoredIn : Chip_compute(c, fn)

SpecAccessors == InitAccessors /\ [][NextAccessors]_vars

\* ------------------------------------------------------------------------
\* The functions of Layer, Assembly, Test and IO, applied on their own
\* ------------------------------------------------------------------------

\* The layers a function is applied to: those of the catalog and one with a
\* negative litho_percent.
LayerInputs == Layers \o <<[Layers[1] EXCEPT !.litho_percent = 0 - Frac(1, 10)]>>

\* The wafer processes: those of the catalog, one without dicing distance and
\* one with a wafer too small for a die.
WaferInputs ==
    WaferProcesses
    \o <<[WaferProcesses[1] EXCEPT !.dicing_distance = 0],
         [WaferProcesses[1] EXCEPT !.wafer_diameter = F(6)]>>

\* The arguments <<layer, area, wafer process>> of the functions of Layer.
LayerArgs(fn) ==
    {[fn |-> fn, v |-> <<l, area, w>>] :
        l \in 1..Len(LayerInputs), area \in {0 - F(1), 0, F(1), F(25), F(100)},
        w \in 1..Len(WaferInputs)}

\* The function named fn is applied to the arguments and returns outcome.
Apply(fn, outcome) ==
    /\ args.fn = fn
    /\ result = Pending
    /\ result' = outcome
    /\ UNCHANGED <<catalog_vars, netlist_vars, design_vars, attrib, chip, pc, stack, status,
                   message, drawn, args, call, ret, calls>>

Apply_layer_cost ==
    Apply("layer_cost",
          layer_cost(LayerInputs[args.v[1]], args.v[2], WaferInputs[args.v[3]]))

Apply_compute_cost_per_mm2 ==
    Apply("compute_cost_per_mm2",
          compute_cost_per_mm2(LayerInputs[args.v[1]], args.v[2], WaferInputs[args.v[3]]))

\* The yields and the defect density of the assembly process, and the
\* arguments <<alignment_yield, bonding_yield, dielectric_bond_defect_density,
\* n_chips, n_bonds, area>> of assembly_yield.
AssemblyYieldArgs ==
    {[fn |-> "assembly_yield", v |-> <<ay, by, ddd, n_chips, n_bonds, area>>] :
        ay \in {0, Frac(1, 2), Scale}, by \in {0, Frac(1, 2), Scale},
        ddd \in {0, Frac(1, 100), Frac(1, 10)}, n_chips \in 0..2,
        n_bonds \in {0, F(1), F(4)}, area \in {0, F(1), F(25), F(100)}}

\* The assembly process with the yields and the defect density of v.
YieldAssembly(v) ==
    [Assemblies[1] EXCEPT !.alignment_yield = v[1], !.bonding_yield = v[2],
                          !.dielectric_bond_defect_density = v[3]]

Apply_assembly_yield ==
    Apply("assembly_yield",
          Ok(assembly_yield(YieldAssembly(args.v), args.v[4], args.v[5], args.v[6])))

\* The arguments <<picknplace_group, bonding_group, n_chips>> of the time
\* functions.
AssemblyTimeArgs ==
    {[fn |-> "assembly_time", v |-> <<pg, bg, n_chips>>] :
        pg \in 1..3, bg \in 1..3, n_chips \in 1..4}

\* The assembly process with the group sizes of v.
TimeAssembly(v) ==
    [Assemblies[1] EXCEPT !.picknplace_group = v[1], !.bonding_group = v[2]]

Apply_assembly_time ==
    Apply("assembly_time", assembly_time(TimeAssembly(args.v), args.v[3]))

\* The values given for test_self, test_assembly and bidirectional: the two
\* bools and the strs of a definition file.
TruthInputs == <<"False", "True", "true", PyFalse, PyTrue>>

\* The arguments <<test_self or test_assembly, failure distribution>> of the
\* functions of Test; the chip is chip 1.
TestArgs ==
    {[fn |-> fn, v |-> <<stage, dist>>] :
        fn \in {"compute_self_test_yield", "compute_self_test_cost",
                "compute_assembly_test_yield", "compute_assembly_test_cost"},
        stage \in 1..Len(TruthInputs), dist \in 1..4}

\* The test process with the stage switches and the distributions of v.
TestInput(v) ==
    [Tests[1] EXCEPT !.test_self = TruthInputs[v[1]], !.test_assembly = TruthInputs[v[1]],
                     !.self_test_failure_dist = v[2], !.assembly_test_failure_dist = v[2]]

\* The chips the functions of Test are applied to: chip 1 with the child
\* chip 2, with the fields the functions read.
TestedChips ==
    [i \in Nodes |->
        IF i > 2 THEN NoChip
        ELSE [NoChip EXCEPT !.name = ChipName(i), !.parent_chip = i - 1,
                            !.chips = IF i = 1 THEN <<2>> ELSE <<>>,
                            !.test_process = 1, !.core_area = F(25),
                            !.self_true_yield = Frac(9, 10), !.self_test_yield = Frac(99, 100),
                            !.chip_true_yield = Frac(8, 10),
                            !.chip_test_yield = Frac(96, 100)]]

Apply_compute_self_test_yield ==
    Apply("compute_self_test_yield", Ok(compute_self_test_yield(TestInput(args.v), 1)))

Apply_compute_self_test_cost ==
    \E draw \in Draws :
        Apply("compute_self_test_cost", compute_self_test_cost(TestInput(args.v), 1, draw))

Apply_compute_assembly_test_yield ==
    Apply("compute_assembly_test_yield", Ok(compute_assembly_test_yield(TestInput(args.v), 1)))

Apply_compute_assembly_test_cost ==
    \E draw \in Draws :
        Apply("compute_assembly_test_cost",
              compute_assembly_test_cost(TestInput(args.v), 1, draw))

\* The argument <<bidirectional>> of the constructor of IO.
IOArgs == {[fn |-> "IO", v |-> <<b>>] : b \in 1..Len(TruthInputs)}

\* io = IO(type, ..., bidirectional, ...): the new object takes the place of
\* the first IO of the list.
Apply_IO ==
    /\ args.fn = "IO"
    /\ result = Pending
    /\ io_list' = [io_list EXCEPT ![1] = IO_init(@, TruthInputs[args.v[1]])]
    /\ result' = Ok(0)
    /\ UNCHANGED <<wafer_process_list, assembly_process_list, test_process_list, layer_list,
                   netlist_vars, design_vars, attrib, chip, pc, stack, status, message,
                   drawn, args, call, ret, calls>>

FunctionArgs ==
    LayerArgs("layer_cost") \cup LayerArgs("compute_cost_per_mm2")
    \cup AssemblyYieldArgs \cup AssemblyTimeArgs \cup TestArgs \cup IOArgs

\* A function is about to be applied to one of the arguments of inputs.
InitApplied(inputs) ==
    /\ InitCatalogs
    /\ global_adjacency_matrix = Unconnected
    /\ average_bandwidth_utilization = Utilization
    /\ block_names = BlockNames
    /\ etree = <<0>>
    /\ menu = {"Logic"}
    /\ static_arg = FALSE
    /\ attrib = [i \in Nodes |-> Logic(i)]
    /\ chip = TestedChips
    /\ pc = [i \in Nodes |-> "built"]
    /\ stack = <<>>
    /\ status = "done"
    /\ message = ""
    /\ drawn = [i \in Nodes |-> [self |-> Scale, assembly |-> Scale]]
    /\ call = [object |-> "", index |-> 0, setter |-> ""]
    /\ ret = 0
    /\ calls = 0
    /\ args \in inputs
    /\ result = Pending

InitFunctions == InitApplied(FunctionArgs)

NextFunctions ==
    \/ Apply_layer_cost
    \/ Apply_compute_cost_per_mm2
    \/ Apply_assembly_yield
    \/ Apply_assembly_time
    \/ Apply_compute_self_test_yield
    \/ Apply_compute_self_test_cost
    \/ Apply_compute_assembly_test_yield
    \/ Apply_compute_assembly_test_cost
    \/ Apply_IO

SpecFunctions == InitFunctions /\ [][NextFunctions]_vars

\* The function named fn has been applied.
Applied(fn) == args.fn = fn /\ result.msg # "pending"

\* ------------------------------------------------------------------------
\* Layer.reticle_utilization, one action per iteration of its while loop
\* ------------------------------------------------------------------------

\* The arguments <<area, reticle_x, reticle_y>>.
ReticleArgs ==
    {[fn |-> "reticle_utilization", v |-> <<area, reticle_x, reticle_y>>] :
        area \in {0, Frac(1, 2), F(1), F(3), F(45), F(50), F(51), F(100), F(150), F(250)},
        reticle_x \in {0, F(5), F(10)}, reticle_y \in {F(10), F(20)}}

\* reticle_x * reticle_y
ReticleStep == FMul(args.v[2], args.v[3])

\* The loop is at its test with this reticle_area.
InLoop(reticle_area) == [ok |-> FALSE, v |-> reticle_area, msg |-> "while"]

\* reticle_area = reticle_x*reticle_y
ReticleBegin ==
    /\ args.fn = "reticle_utilization"
    /\ result = Pending
    /\ result' = InLoop(ReticleStep)
    /\ UNCHANGED <<catalog_vars, netlist_vars, design_vars, attrib, chip, pc, stack, status,
                   message, drawn, args, call, ret, calls>>

\* ReticleGrow that adds two reticles in each iteration.
ReticleGrow_by_two ==
    /\ result.msg = "while"
    /\ result.v < args.v[1]
    /\ result' = InLoop(result.v + 2 * ReticleStep)
    /\ UNCHANGED <<catalog_vars, netlist_vars, design_vars, attrib, chip, pc, stack, status,
                   message, drawn, args, call, ret, calls>>

\* while reticle_area < area: reticle_area += reticle_x*reticle_y
ReticleGrow ==
    /\ result.msg = "while"
    /\ result.v < args.v[1]
    /\ result' = InLoop(result.v + ReticleStep)
    /\ UNCHANGED <<catalog_vars, netlist_vars, design_vars, attrib, chip, pc, stack, status,
                   message, drawn, args, call, ret, calls>>

\* The loop is left; reticle_area//area raises for area 0.
ReticleReturn ==
    /\ result.msg = "while"
    /\ result.v >= args.v[1]
    /\ result' = IF args.v[1] = 0 THEN Fatal("ZeroDivisionError")
                 ELSE Ok(reticle_utilization_after_loop(result.v, args.v[1]))
    /\ UNCHANGED <<catalog_vars, netlist_vars, design_vars, attrib, chip, pc, stack, status,
                   message, drawn, args, call, ret, calls>>

NextReticle ==
    \/ ReticleBegin
    \/ ReticleGrow
    \/ ReticleReturn

SpecReticle == InitApplied(ReticleArgs) /\ [][NextReticle]_vars

\* The interpreter goes on executing the call.
FairSpecReticle == SpecReticle /\ WF_vars(NextReticle)

\* reticle_utilization has returned or raised.
ReticleReturned == result.msg \notin {"pending", "while"}

\* ------------------------------------------------------------------------
\* Properties of the constructed chips
\* ------------------------------------------------------------------------

\* The direct children of chip c, as the constructor appended them.
Children(c) == {chip[c].chips[i] : i \in 1..Len(chip[c].chips)}

\* The constructor of chip c has assigned the field.
Computed(c, field) == chip[c][field] # Unset

\* The costs of the test stages of chip c with the numbers its constructor drew.
SelfTestCost(c) ==
    compute_self_test_cost(test_process_list[chip[c].test_process], c, drawn[c].self).v

AssemblyTestCost(c) ==
    compute_assembly_test_cost(test_process_list[chip[c].test_process], c,
                               drawn[c].assembly).v

LayerCosts(c) ==
    Sum([i \in 1..Len(chip[c].stackup) |->
            layer_cost(layer_list[chip[c].stackup[i]], chip[c].area,
                       wafer_process_list[chip[c].wafer_process]).v])

MaskCost(c) ==
    FMul(Sum([i \in 1..Len(chip[c].stackup) |-> layer_list[chip[c].stackup[i]].mask_cost]),
         chip[c].reticle_share)

RECURSIVE SubtreeNodes(_)
SubtreeNodes(c) ==
    {c} \cup UNION {SubtreeNodes(chip[c].chips[i]) : i \in 1..Len(chip[c].chips)}

\* The blocks of the netlist that lie inside the subtree of chip c.
SubtreeBlocks(c) ==
    {j \in BlockIndices : \E k \in SubtreeNodes(c) : block_names[j] = chip[k].name}

\* The signals of chip k that leave the subtree of chip c.
ExternalSignalCount(k, c) ==
    LET block_index == LastBlockIndex(chip[k].name)
    IN  IF block_index = 0 THEN 0
        ELSE Sum([n \in 1..Len(IOTypes) |->
                    SignalsOfType(IOTypes[n], block_index, SubtreeBlocks(c))])

\* C2: every constructed chip has chip_true_yield = self_quality * the product
\* of its children's quality * assembly_yield(number of children, total
\* external signal count of the children, stacked_die_area) *
\* wafer_process_yield, and self_true_yield = the product over the stackup of
\* layer_yield(core_area + io_area).
ChipYieldFormula ==
    \A c \in Nodes :
        /\ Computed(c, "chip_true_yield") =>
               chip[c].chip_true_yield =
                   FMul(chip[c].self_quality,
                        FMul(FMul(Prod([i \in 1..Len(chip[c].chips) |->
                                           chip[chip[c].chips[i]].quality]),
                                  assembly_yield(
                                      assembly_process_list[chip[c].assembly_process],
                                      Len(chip[c].chips),
                                      Sum([i \in 1..Len(chip[c].chips) |->
                                              ExternalSignalCount(chip[c].chips[i], c)]),
                                      get_stacked_die_area(c))),
                             wafer_process_list[chip[c].wafer_process].wafer_process_yield))
        /\ Computed(c, "self_true_yield") =>
               chip[c].self_true_yield =
                   Prod([i \in 1..Len(chip[c].stackup) |->
                            layer_yield(layer_list[chip[c].stackup[i]],
                                        chip[c].core_area + get_io_area(c))])

\* The blocks of the subtree of chip c that signal counting for chip k, with
\* the chip list of c as the internal list, treats as outside and that chip k
\* has a wire to.
CountedInternalWires(k, c) ==
    LET block_index == LastBlockIndex(chip[k].name)
        internal == internal_block_list_indices(get_chip_list(c))
    IN  {j \in SubtreeBlocks(c) \ internal :
            /\ block_index # 0
            /\ \E n \in 1..Len(IOTypes) :
                   global_adjacency_matrix.m[IOTypes[n]][block_index][j]
                   + global_adjacency_matrix.m[IOTypes[n]][j][block_index] > 0}

\* C4: signal counting counts externally facing wires only: for a chip with
\* children, get_signal_count with the chip's own chip list adds no wire to
\* the chip itself or to a descendant, and get_chips_signal_count adds, for
\* each child, no wire to a block inside the chip's subtree.
OnlyExternalWiresCounted ==
    \A c \in Nodes :
        (Computed(c, "core_voltage") /\ chip[c].chips # <<>>) =>
            /\ CountedInternalWires(c, c) = {}
            /\ \A k \in Children(c) : CountedInternalWires(k, c) = {}

\* The stacked-die bounding area of chip c: the areas of the children that are
\* not buried, each expanded by half the die separation, summed and expanded
\* by the edge exclusion of the assembly process.
StackedDieBound(c) ==
    LET a == assembly_process_list[chip[c].assembly_process]
    IN  expandedArea(Sum([i \in 1..Len(chip[c].chips) |->
                             IF chip[chip[c].chips[i]].buried = PyTrue THEN 0
                             ELSE expandedArea(chip[chip[c].chips[i]].area,
                                               a.die_separation \div 2,
                                               chip[chip[c].chips[i]].aspect_ratio)]),
                     a.edge_exclusion, Scale)

\* C3: the area of a chip is its area override whenever that is set, whatever
\* its children, IO and power; otherwise it is the maximum of core_area +
\* io_area, the stacked-die bounding area over the children that are not
\* buried, and the pad-grid area.
AreaFormula ==
    \A c \in Nodes :
        Computed(c, "area") =>
            chip[c].area =
                IF chip[c].bb_area # PyNone THEN chip[c].bb_area
                ELSE Max2(chip[c].core_area + get_io_area(c),
                          Max2(StackedDieBound(c), get_pad_area(c).v))

\* A chip without override is built over a child with the area override and a
\* buried child, and its area is the stacked-die bound.
AreaFormulaWitness ==
    /\ status = "done"
    /\ etree = <<0, 1, 1>>
    /\ chip[1].bb_area = PyNone
    /\ chip[2].bb_area # PyNone
    /\ chip[2].area = chip[2].bb_area
    /\ chip[2].bb_area # chip[2].core_area + get_io_area(2)
    /\ chip[3].buried = PyTrue
    /\ chip[1].area = StackedDieBound(1)
    /\ chip[1].area > chip[1].core_area + get_io_area(1)

\* Chip c has one child, the child has none, and no block has a connection.
SingleLeafChild(c) ==
    /\ Computed(c, "cost")
    /\ Len(chip[c].chips) = 1
    /\ chip[chip[c].chips[1]].chips = <<>>
    /\ global_adjacency_matrix = Unconnected

\* C5 as stated: a chip with a single leaf child and no IO connections has
\* cost = (self_cost + child.cost + assembly_cost(1, child_area)) /
\* chip_test_yield, child_area being the area of the child.
RoundTripChildArea ==
    \A c \in Nodes :
        SingleLeafChild(c) =>
            chip[c].cost =
                FDiv(chip[c].self_cost + chip[chip[c].chips[1]].cost
                     + assembly_cost(assembly_process_list[chip[c].assembly_process], 1,
                                     chip[chip[c].chips[1]].area),
                     chip[c].chip_test_yield)

\* C5: a chip with a single leaf child and no IO connections has cost =
\* (self_cost + child.cost + assembly_cost(1, stacked_die_area) + assembly test
\* cost) / chip_test_yield, stacked_die_area being the area of the child
\* expanded by half the die separation at its aspect ratio (0 for a buried
\* child) and then by the edge exclusion of the assembly process.
RoundTripStackedDieArea ==
    \A c \in Nodes :
        SingleLeafChild(c) =>
            LET k == chip[c].chips[1]
                a == assembly_process_list[chip[c].assembly_process]
                child_area == IF chip[k].buried = PyTrue THEN 0
                              ELSE expandedArea(chip[k].area, a.die_separation \div 2,
                                                chip[k].aspect_ratio)
                stacked_die_area == expandedArea(child_area, a.edge_exclusion, Scale)
            IN  chip[c].cost =
                    FDiv(chip[c].self_cost + chip[k].cost
                         + assembly_cost(a, 1, stacked_die_area) + AssemblyTestCost(c),
                         chip[c].chip_test_yield)

\* A chip is built over a single leaf child in a netlist without connections,
\* its assembly is tested and the assembly of the stacked area costs more than
\* that of the area of the child.
RoundTripWitness ==
    /\ status = "done"
    /\ etree = <<0, 1>>
    /\ SingleLeafChild(1)
    /\ AssemblyTestCost(1) > 0
    /\ assembly_cost(assembly_process_list[chip[1].assembly_process], 1, StackedDieBound(1))
           > assembly_cost(assembly_process_list[chip[1].assembly_process], 1, chip[2].area)

\* The children of chip c in the definition tree.
TreeChildren(c) == {k \in 1..Len(etree) : etree[k] = c}

DerivedFieldSet == {DerivedFields[i] : i \in 1..Len(DerivedFields)}

\* C6: construction is post-order: whenever a derived field of a chip is
\* computed, every child of the chip has completed its construction, all the
\* derived fields of the child are computed, and no derived field of a chip
\* whose construction completed is written again.
PostOrder ==
    [][\A c \in Nodes :
          /\ (\E f \in DerivedFieldSet : chip'[c][f] # chip[c][f]) =>
                 \A k \in TreeChildren(c) :
                     /\ pc[k] = "built"
                     /\ \A f \in DerivedFieldSet :
                            Computed(k, f) /\ chip'[k][f] = chip[k][f]
          /\ pc[c] = "built" =>
                 \A f \in DerivedFieldSet : chip'[c][f] = chip[c][f]]_vars

\* The root computes its derived fields over two children that are built.
PostOrderWitness ==
    /\ pc[1] = "area"
    /\ Computed(1, "total_power")
    /\ TreeChildren(1) = {2, 3}
    /\ pc[2] = "built"
    /\ pc[3] = "built"
    /\ chip[1].stack_power = chip[2].total_power + chip[3].total_power

\* The names of the records of a catalog.
Names(process_list) == {process_list[i].name : i \in 1..Len(process_list)}

\* C9: constructing a chip whose wafer, assembly or test process name is
\* absent from its catalog, or whose stackup string names a layer absent from
\* the layer catalog, is fatal: no constructor gets past the lookups with
\* such a definition.
MissingReferenceFatal ==
    \A c \in Nodes :
        pc[c] \notin {"none", "find"} =>
            /\ attrib[c].wafer_process \in Names(wafer_process_list)
            /\ attrib[c].assembly_process \in Names(assembly_process_list)
            /\ attrib[c].test_process \in Names(test_process_list)
            /\ \A i \in 1..Len(attrib[c].stackup) :
                   attrib[c].stackup[i].name \in Names(layer_list)

\* The name of chip c is assigned and is absent from the block names.
AbsentName(c) ==
    /\ Computed(c, "core_voltage")
    /\ \A j \in BlockIndices : block_names[j] # chip[c].name

\* The constructor that halted is the one of a definition with a bad reference.
HaltedForBadDefinition ==
    /\ status \in {"exit", "raise"}
    /\ attrib[stack[Len(stack)]] \in BadDefinitions(stack[Len(stack)])

\* The steps of the constructor after the loop over the chip elements.
OwnStages ==
    {"find", "attributes", "stack_power", "io_power", "total_power", "nre_design_cost",
     "area", "self_true_yield", "self_test_yield", "self_quality", "chip_true_yield",
     "chip_test_yield", "quality", "self_cost", "cost", "static"}

\* The guard of a step of a constructor holds: the root constructor can be
\* called, or the innermost constructor is at a step of its own, or it is in
\* its loop and the next child can be constructed or there is none left.
ConstructorCanStep ==
    \/ stack = <<>> /\ pc[1] = "none"
    \/ /\ stack # <<>>
       /\ \/ pc[stack[Len(stack)]] \in OwnStages
          \/ /\ pc[stack[Len(stack)]] = "chips"
             /\ \/ \A k \in TreeChildren(stack[Len(stack)]) : pc[k] # "none"
                \/ \E k \in TreeChildren(stack[Len(stack)]) :
                       pc[k] = "none" /\ \A j \in 1..(k - 1) : pc[j] # "none"

\* C10: a chip whose name is absent from the block names is no error: its IO
\* area is 0 and its signal count is 0 with an empty reach map; construction
\* runs to completion for it and its ancestors: a constructor halts for a
\* definition with a bad reference only, a running constructor has a step to
\* take, and when the root is built every chip of the tree is.
AbsentNameGraceful ==
    /\ \A c \in Nodes :
           AbsentName(c) =>
               /\ get_io_area(c) = 0
               /\ get_signal_count(c, get_chip_list(c)) = [count |-> 0, reach |-> <<>>]
               /\ ~(status \in {"exit", "raise"} /\ stack[Len(stack)] = c)
    /\ status \in {"exit", "raise"} => HaltedForBadDefinition
    /\ status = "running" => ConstructorCanStep
    /\ status = "done" => \A c \in 1..Len(etree) : pc[c] = "built"

\* A chip with a name absent from the block names is built below the root and
\* above a chip with connections, and the root is built.
AbsentNameWitness ==
    /\ status = "done"
    /\ etree = <<0, 1, 2>>
    /\ AbsentName(2)
    /\ ~AbsentName(1)
    /\ ~AbsentName(3)
    /\ global_adjacency_matrix = Connected
    /\ get_signal_count(3, get_chip_list(3)).count > 0
    /\ chip[2].static = static_arg

\* C7: once a chip is static, every setter of the chip fails: each set_* call,
\* set_area, set_stack_power and set_nre_design_cost among them, returns 1
\* and leaves every field of the chip unchanged.
FinalizedSettersFail ==
    [][\A c \in Nodes :
          (calls' # calls /\ call'.object = "Chip" /\ call'.index = c /\ chip[c].static) =>
              ret' = 1 /\ status' = status /\ chip'[c] = chip[c]]_vars

\* The records of the catalog of a class.
Catalog(object) ==
    CASE object = "WaferProcess" -> wafer_process_list
      [] object = "IO" -> io_list
      [] object = "Layer" -> layer_list
      [] object = "Assembly" -> assembly_process_list
      [] object = "Test" -> test_process_list

Classes == {"WaferProcess", "IO", "Layer", "Assembly", "Test"}

\* C8: for a static WaferProcess, IO, Layer, Assembly or Test record every
\* set_* call returns 1 without raising and leaves every field of the record,
\* the static flag included, unchanged, so that a static record stays what it
\* was when it became static.
StaticRecordsImmutable ==
    [][\A object \in Classes :
          \A i \in 1..Len(Catalog(object)) :
              Catalog(object)[i].static =>
                  /\ Catalog(object)'[i] = Catalog(object)[i]
                  /\ (calls' # calls /\ call'.object = object /\ call'.index = i) =>
                         ret' = 1 /\ status' = status]_vars

\* C11: layer_cost returns 0 for area 0, and ends the process, returning no
\* value, whenever the area is negative or the litho_percent of the layer is
\* negative, for every area, 0 included.
LayerCostNegativeFatal ==
    Applied("layer_cost") =>
        LET l == LayerInputs[args.v[1]]
            area == args.v[2]
        IN  /\ (area < 0 \/ l.litho_percent < 0) => ~result.ok
            /\ (area = 0 /\ l.litho_percent >= 0) => result = Ok(0)

ConstructionWritesNoSharedState ==
    [][catalog_vars' = catalog_vars /\ netlist_vars' = netlist_vars]_vars

\* C14: for n_chips >= 0, n_bonds >= 0, area >= 0, alignment and bonding
\* yields in [0,1] and a dielectric bond defect density >= 0,
\* assembly_yield(n_chips, n_bonds, area) lies in [0,1].
AssemblyYieldInUnitInterval ==
    Applied("assembly_yield") => (result.ok /\ result.v >= 0 /\ result.v <= Scale)

\* C15: assembly_yield(0, 0, 0) is 1.0, and raising one of n_chips, n_bonds
\* and area with the other two held fixed never raises the result.
AssemblyYieldDecreasing ==
    Applied("assembly_yield") =>
        LET a == YieldAssembly(args.v)
            n_chips == args.v[4]
            n_bonds == args.v[5]
            area == args.v[6]
        IN  /\ (n_chips = 0 /\ n_bonds = 0 /\ area = 0) => result = Ok(Scale)
            /\ assembly_yield(a, n_chips + 1, n_bonds, area) <= result.v
            /\ assembly_yield(a, n_chips, n_bonds + F(1), area) <= result.v
            /\ assembly_yield(a, n_chips, n_bonds, area + F(1)) <= result.v

\* C18: for every n >= 1, assembly_time(n) returns
\* compute_picknplace_time(n) + compute_bonding_time(n), that is
\* ceil(n/picknplace_group) * picknplace_time
\* + ceil(n/bonding_group) * bonding_time.
AssemblyTimeIsSum ==
    Applied("assembly_time") =>
        LET a == TimeAssembly(args.v)
            n == args.v[3]
        IN  /\ compute_picknplace_time(a, n) = CeilDiv(n, a.picknplace_group) * a.picknplace_time
            /\ compute_bonding_time(a, n) = CeilDiv(n, a.bonding_group) * a.bonding_time
            /\ result = Ok(compute_picknplace_time(a, n) + compute_bonding_time(a, n))

\* C16: compute_cost_per_mm2 raises no arithmetic error: for every area and
\* wafer process it ends in exactly one of the sentinel 1e9 when the diagonal
\* of the square exceeds the usable wafer radius, the fatal exit when the
\* square area or the number of squares is zero, or a positive cost per area.
CostPerAreaOutcomes ==
    Applied("compute_cost_per_mm2") =>
        LET square_area == args.v[2]
            wafer_process == WaferInputs[args.v[3]]
            r == (wafer_process.wafer_diameter - 2 * wafer_process.edge_exclusion) \div 2
            exits == {"Square area is zero. Exiting...", "Number squares is zero. Exiting..."}
        IN  IF ~result.ok THEN result.msg \in exits
            ELSE IF FMul(FSqrt(square_area) + wafer_process.dicing_distance, FSqrt(F(2))) > r
            THEN result.v = CostSentinel
            ELSE result.v > 0 /\ result.v < CostSentinel

\* C17: a test stage whose switch is the str "False" or the bool False is
\* disabled for the yield function and for the cost function: its test
\* yield is 1.0 and its test cost is 0.0 whatever the generator would draw;
\* and for every value of the switch the cost function treats the stage as
\* disabled exactly when the yield function does.
DisabledStageAgreed ==
    LET t == TestInput(args.v)
        disabled == TruthInputs[args.v[1]] \in {"False", PyFalse}
    IN  /\ Applied("compute_self_test_yield") => (disabled => result = Ok(Scale))
        /\ Applied("compute_assembly_test_yield") => (disabled => result = Ok(Scale))
        /\ Applied("compute_self_test_cost") =>
              /\ disabled => result = Ok(0)
              /\ (result = Ok(0)) <=> (compute_self_test_yield(t, 1) = Scale)
        /\ Applied("compute_assembly_test_cost") =>
              /\ disabled => result = Ok(0)
              /\ (result = Ok(0)) <=> (compute_assembly_test_yield(t, 1) = Scale)

\* C19: an IO built with the bidirectional argument "True" or "true" has
\* bidirectional == True, and built with any other value has
\* bidirectional == False, so that signal counting halves the wires of
\* exactly the IO types declared bidirectional.
BidirectionalAsDeclared ==
    Applied("IO") =>
        LET declared == TruthInputs[args.v[1]] \in {"True", "true"}
        IN  /\ io_list[1].bidirectional = (IF declared THEN PyTrue ELSE PyFalse)
            /\ bidirectional_factor(io_list[1]) = (IF declared THEN Frac(1, 2) ELSE Scale)

\* C20: after the constructor and after every setter call the
\* wafer_process_yield of a WaferProcess lies in [0,1], and a call of
\* set_wafer_process_yield with a value outside [0,1] returns 1 and leaves
\* the yield as it was.
WaferProcessYieldInRange ==
    [][/\ \A i \in 1..Len(wafer_process_list) :
             /\ wafer_process_list'[i].wafer_process_yield >= 0
             /\ wafer_process_list'[i].wafer_process_yield <= Scale
       /\ \A i \in 1..Len(wafer_process_list), value \in WaferYieldInputs :
             (WaferProcess_set_wafer_process_yield(i, value) /\ (value < 0 \/ value > Scale))
             => /\ ret' = 1
                /\ wafer_process_list'[i].wafer_process_yield
                   = wafer_process_list[i].wafer_process_yield]_vars

\* C27 as stated, its range: for every area and reticle dimensions, whenever
\* reticle_utilization has ended it has returned a value in (0,1].
ReticleUtilizationInUnitInterval ==
    ReticleReturned =>
        /\ result.ok
        /\ result.v > 0
        /\ result.v <= Scale

\* C27, amended: for every area > 0 and reticle_x * reticle_y > 0
\* reticle_utilization returns a value in (0,1], and exactly 1.0 whenever the
\* grown reticle area is an integer multiple of the area.
ReticleUtilizationOfPositiveArea ==
    (ReticleReturned /\ args.v[1] > 0 /\ ReticleStep > 0) =>
        LET area == args.v[1]
            reticle_area == GrowReticle(ReticleStep, ReticleStep, area)
        IN  /\ result.ok
            /\ result.v > 0
            /\ result.v <= Scale
            /\ reticle_area % area = 0 => result.v = Scale

\* A die of 45 mm2 in a reticle of 100 mm2: two dice fit, the utilization is
\* 0.9.
ReticleUtilizationWitness ==
    /\ ReticleReturned
    /\ args.v = <<F(45), F(10), F(10)>>
    /\ result = Ok(Frac(9, 10))

\* reticle_utilization is called with area >= 0 and a reticle of positive area.
ReticleLoopStart == args.v[1] >= 0 /\ ReticleStep > 0 /\ result = Pending

\* The loop is left with the smallest positive multiple of the reticle area
\* that is >= area.
ReticleLoopExit ==
    /\ result.msg = "while"
    /\ ReticleStep > 0
    /\ result.v >= args.v[1]
    /\ result.v >= ReticleStep
    /\ result.v % ReticleStep = 0
    /\ result.v > ReticleStep => result.v - ReticleStep < args.v[1]

\* C30: for area >= 0 and reticle_x * reticle_y > 0 the loop of
\* reticle_utilization is left, and then the grown reticle area is the
\* smallest positive integer multiple of reticle_x * reticle_y that is >= area.
ReticleLoopTerminates == ReticleLoopStart ~> ReticleLoopExit

\* The loop ran three times for a die of 250 mm2 and a reticle of 100 mm2.
ReticleLoopWitness ==
    /\ args.v = <<F(250), F(10), F(10)>>
    /\ result = InLoop(F(300))

\* C26: for each of the four failure distributions (1 normal, 2 uniform,
\* 3 exponential, 4 log-normal) compute_self_test_cost and
\* compute_assembly_test_cost of an enabled stage both return a value, and
\* with the uniform distribution both return exactly
\* area * cost_per_area * pattern_count whatever the generator would draw.
FailureDistAgreed ==
    LET t == TestInput(args.v)
        enabled == TruthInputs[args.v[1]] = PyTrue
        uniform == args.v[2] = 2
    IN  /\ (Applied("compute_self_test_cost") /\ enabled) =>
              /\ result.ok
              /\ uniform => result.v = FMul(chip[1].core_area, t.self_test_cost_per_mm2)
                                       * t.self_pattern_count
        /\ (Applied("compute_assembly_test_cost") /\ enabled) =>
              /\ result.ok
              /\ uniform => result.v = FMul(chip[1].core_area + chip[2].core_area,
                                            t.assembly_test_cost_per_mm2)
                                       * t.assembly_pattern_count

\* C28: for every Assembly that is not static, after any sequence of setter
\* calls get_picknplace_cost_per_second() equals the cost per second
\* computed from the current picknplace fields, and
\* get_bonding_cost_per_second() the one computed from the current bonding
\* fields.
CostPerSecondNeverStale ==
    \A i \in 1..Len(assembly_process_list) :
        LET a == assembly_process_list[i]
        IN  ~a.static =>
                /\ get_picknplace_cost_per_second(a) = compute_picknplace_cost_per_second(a)
                /\ get_bonding_cost_per_second(a) = compute_bonding_cost_per_second(a)

\* C29: in every state of a WaferProcess, an IO or a Layer reached by the
\* constructor, the setters and set_static in any order, a static record has
\* every parameter defined (not None), so that set_static on a record with an
\* undefined parameter never leaves it static.
StaticOnlyIfDefined ==
    /\ \A i \in 1..Len(wafer_process_list) :
           wafer_process_list[i].static =>
               ~Undefined(wafer_process_list[i], WaferProcessParameters)
    /\ \A i \in 1..Len(io_list) :
           io_list[i].static => ~Undefined(io_list[i], IOParameters)
    /\ \A i \in 1..Len(layer_list) :
           layer_list[i].static => ~Undefined(layer_list[i], LayerParameters)

\* C23: for a chip whose name is at index i of the block names, get_io_area
\* returns the sum over the interconnect types T of the adjacency model of
\* (the sum of row i of M_T) * tx_area(T) + (the sum of column i of M_T) *
\* rx_area(T), with tx_area(T) and rx_area(T) those of the IO of type T.
IOAreaOfRowAndColumn ==
    (args.fn = "get" /\ args.v[2] = "get_io_area" /\ FirstBlockIndex(chip[args.v[1]].name) # 0) =>
        LET i == FirstBlockIndex(chip[args.v[1]].name)
            M(T) == global_adjacency_matrix.m[T]
        IN  result = Ok(Sum([n \in 1..Len(IOTypes) |->
                              LET T == IOTypes[n]
                              IN  Sum([j \in BlockIndices |-> M(T)[i][j]]) * IOOfType(T).tx_area
                                  + Sum([j \in BlockIndices |-> M(T)[j][i]])
                                    * IOOfType(T).rx_area]))

\* The bonding pitch of the pad grid of chip c: that of the assembly process
\* of the parent if c has a parent, its own otherwise.
PadPitch(c) ==
    IF chip[c].parent_chip # 0
    THEN assembly_process_list[chip[chip[c].parent_chip].assembly_process].bonding_pitch
    ELSE assembly_process_list[chip[c].assembly_process].bonding_pitch

\* The grid of the last pass of get_pad_area for chip c.
PadGridOf(c) ==
    PadGrid(FMul(FMul(PadPitch(c), PadPitch(c)),
                 get_signal_count(c, get_chip_list(c)).count + F(get_power_pads(c))),
            PadRectangle(c).x, PadRectangle(c).y, PadPitch(c))

\* get_pad_area of chip args.v[1] has returned.
PadAreaReturned == args.fn = "get" /\ args.v[2] = "get_pad_area" /\ result.ok

\* C24: get_pad_area returns grid_x * grid_y * p^2 with integers grid_x,
\* grid_y >= 0, p the bonding pitch of the parent's assembly process if the
\* chip has a parent and its own otherwise, and the area is at least
\* (signal pads + power pads) * p^2, the power pads being
\* 2 * ceil(total_power / power_per_pad(core_voltage)).
PadAreaIsGridOfPads ==
    PadAreaReturned =>
        LET c == args.v[1]
            area_per_pad == FMul(PadPitch(c), PadPitch(c))
            signal_pads == get_signal_count(c, get_chip_list(c)).count
            power_pads ==
                2 * Ceil(FDiv(chip[c].total_power,
                              get_power_per_pad(assembly_process_list[chip[c].assembly_process],
                                                chip[c].core_voltage)))
        IN  /\ \E grid_x, grid_y \in 0..(result.v \div area_per_pad) :
                   result.v = grid_x * grid_y * area_per_pad
            /\ result.v >= FMul(area_per_pad, signal_pads + F(power_pads))

\* get_pad_area has returned the grid of a child chip that has signal pads
\* and whose parent bonds at another pitch than the child's own process.
PadAreaOfChildWitness ==
    /\ PadAreaReturned
    /\ chip[args.v[1]].parent_chip # 0
    /\ PadPitch(args.v[1])
           # assembly_process_list[chip[args.v[1]].assembly_process].bonding_pitch
    /\ get_signal_count(args.v[1], get_chip_list(args.v[1])).count > 0
    /\ result.v > 0

\* C25: the last pass of get_pad_area only grows the rectangle: the grid
\* covers the sides reached after the last reach,
\* grid_x * pitch >= current_x and grid_y * pitch >= current_y.
PadGridOnlyGrows ==
    PadAreaReturned =>
        LET c == args.v[1]
        IN  /\ PadGridOf(c).x * PadPitch(c) >= PadRectangle(c).x
            /\ PadGridOf(c).y * PadPitch(c) >= PadRectangle(c).y

\* The pad area of chip c when the die separation the loop over the reaches
\* subtracts is die_separation, everything else as get_pad_area has it.
PadAreaWithSeparation(c, die_separation) ==
    LET signals == get_signal_count(c, get_chip_list(c))
        area_per_pad == FMul(PadPitch(c), PadPitch(c))
        loop == PadLoop(Sorted(DOMAIN signals.reach), 1, signals.reach, die_separation,
                        PadPitch(c), chip[c].aspect_ratio, 0, 0, 0)
        grid == PadGrid(FMul(area_per_pad, signals.count + F(get_power_pads(c))),
                        loop.x, loop.y, PadPitch(c))
    IN  IF ~loop.ok THEN Fatal(loop.msg) ELSE Ok(grid.x * grid.y * area_per_pad)

Stages == DerivedFields \o <<"static", "built">>

StageIndex(stage) == CHOOSE k \in 1..Len(Stages) : Stages[k] = stage

\* The derived fields of the chip itself that the computation of a stage may
\* read through the getters.
StageReads ==
    [stack_power |-> {}, io_power |-> {}, total_power |-> {"io_power", "stack_power"},
     nre_design_cost |-> {}, area |-> {"total_power"}, self_true_yield |-> {},
     self_test_yield |-> {"self_true_yield"},
     self_quality |-> {"self_true_yield", "self_test_yield"},
     chip_true_yield |-> {"self_quality"}, chip_test_yield |-> {"chip_true_yield"},
     quality |-> {"chip_true_yield", "chip_test_yield"},
     self_cost |-> {"nre_design_cost", "self_test_yield", "chip_true_yield"},
     cost |-> {"self_cost", "chip_true_yield", "chip_test_yield"}]

\* The derived fields of the children that the computation of a stage reads.
StageReadsOfChildren ==
    [f \in DOMAIN StageReads |->
        CASE f = "stack_power" -> {"total_power"}
          [] f = "area" -> {"area"}
          [] f = "chip_true_yield" -> {"quality"}
          [] f = "cost" -> {"cost"}
          [] OTHER -> {}]

\* The constructor of chip c leaves a stage.
StageStep(c) ==
    LET stage == pc[c]
    IN  /\ pc'[c] = Stages[StageIndex(stage) + 1]
        /\ stage # "static" =>
               /\ ~Computed(c, stage)
               /\ chip'[c][stage] # Unset
               /\ \A f \in StageReads[stage] : Computed(c, f)
               /\ \A child \in Children(c), f \in StageReadsOfChildren[stage] :
                      Computed(child, f)
               /\ chip'[c].static = FALSE
        /\ stage = "static" =>
               /\ \A k \in 1..Len(DerivedFields) : Computed(c, DerivedFields[k])
               /\ chip'[c].static = static_arg

\* C21: within the construction of one chip the stages run in the order of
\* the state machine and every derived field is assigned before it is read:
\* total_power before the area, area and self_true_yield before
\* self_test_yield and self_quality, self_quality and the children's quality
\* before chip_true_yield, chip_true_yield before chip_test_yield, quality
\* and the test costs, self_cost before cost; the static flag is assigned
\* only after cost.
ConstructionStagesInOrder ==
    [][\A c \in Nodes :
          (pc[c] \in {Stages[k] : k \in 1..(Len(Stages) - 1)} /\ pc'[c] # pc[c]) => StageStep(c)]_vars

\* A chip with a child is built and static: both constructors ran through
\* every stage.
ConstructionStagesWitness ==
    /\ pc[1] = "built"
    /\ chip[1].chips = <<2>>
    /\ chip[1].static
    /\ chip[2].static
    /\ \A k \in 1..Len(DerivedFields) : Computed(1, DerivedFields[k])

====
